---------------------------- MODULE Spec2Model ----------------------------
(***************************************************************************)
(* A model of the AUTOSAR ARXML element model (autosar/xml/element.py) and *)
(* of its text writer (autosar/xml/writer.py).                             *)
(*                                                                         *)
(* Strings are sequences of one-character strings, so that str.partition,  *)
(* str.startswith and str.join are computed as the code computes them.     *)
(* Python objects live in a heap: a sequence of records, the index of an   *)
(* object being its identity.  Index 0 is Python's None.                   *)
(***************************************************************************)
EXTENDS Integers, Sequences, FiniteSets, TLC

VARIABLES
    heap,   \* the objects constructed so far (heap[1] is the Document)
    last,   \* the last call made: its arguments and its outcome
    writer  \* the Writer instance: its stream and its bookkeeping

vars == <<heap, last, writer>>

---------------------------------------------------------------------------
(* Bounds of the model *)

MaxPackages == 2    \* packages application code constructs
MaxElements == 1    \* elements application code constructs
MaxCreated == 2     \* packages create_package / make_packages may add to a heap
MaxPathLen == 3     \* characters of a path given to make_packages / find

---------------------------------------------------------------------------
(* Strings *)

Slash == "/"
Letters == {"a", "b"}
Chars == Letters \cup {Slash}

\* The short names application code gives to the objects it constructs.
Names == {<<c>> : c \in Letters}

RECURSIVE StrUpTo(_)
StrUpTo(n) ==
    IF n = 0 THEN {<<>>}
    ELSE LET S == StrUpTo(n - 1)
         IN  S \cup {Append(s, c) : s \in {t \in S : Len(t) = n - 1}, c \in Chars}

\* The paths given to make_packages / find: short names are one letter
\* long, so two letters never stand side by side; empty segments, leading
\* and trailing slashes are included.
Paths ==
    {s \in StrUpTo(MaxPathLen) :
        \A i \in 1..(Len(s) - 1) : s[i] = Slash \/ s[i + 1] = Slash}

\* str.startswith('/')
startswith_slash(s) == Len(s) > 0 /\ s[1] = Slash

\* The index of the first '/' of s, 0 when there is none.
RECURSIVE find_slash(_, _)
find_slash(s, i) ==
    IF i > Len(s) THEN 0
    ELSE IF s[i] = Slash THEN i
    ELSE find_slash(s, i + 1)

\* str.partition('/'): <<head, separator, tail>>
partition(s) ==
    LET i == find_slash(s, 1)
    IN  IF i = 0 THEN <<s, <<>>, <<>>>>
        ELSE <<SubSeq(s, 1, i - 1), <<Slash>>, SubSeq(s, i + 1, Len(s))>>

\* reversed(list)
reversed(parts) == [i \in 1..Len(parts) |-> parts[Len(parts) + 1 - i]]

\* '/'.join(parts)
RECURSIVE join(_)
join(parts) ==
    IF Len(parts) = 0 THEN <<>>
    ELSE IF Len(parts) = 1 THEN parts[1]
    ELSE parts[1] \o <<Slash>> \o join(Tail(parts))

---------------------------------------------------------------------------
(* Objects *)

None == 0           \* Python's None, as a parent link or a dict.get result
DocId == 1          \* the Document every run starts with

\* ARElement subclasses that define ref() and return None without a parent
RefNoneClasses == {"CompuMethod", "SwBaseType", "ImplementationDataType",
                   "ApplicationPrimitiveDataType", "ApplicationArrayDataType",
                   "ApplicationRecordDataType"}
\* ARElement subclasses that define ref() and assert that a parent is set
RefAssertClasses == {"DataConstraint", "SwAddrMethod", "ConstantSpecification"}
RefClasses == RefNoneClasses \cup RefAssertClasses
\* ARElement subclasses: those with ref(), and Unit and
\* SenderReceiverInterface, which have none
ElementClasses == RefClasses \cup {"Unit", "SenderReceiverInterface"}

\* Referrable.__init__ / Package.__init__ / ImplementationDataType.__init__
NewObject(cls, name, subs) ==
    [cls |-> cls, name |-> name, parent |-> None,
     elements |-> <<>>, packages |-> <<>>, collection_map |-> <<>>,
     sub_elements |-> subs]

isinstance_Package(h, id) == h[id].cls = "Package"
isinstance_ARElement(h, id) == h[id].cls \in ElementClasses

\* dict.get(key, None)
dict_get(map, key) == IF key \in DOMAIN map THEN map[key] ELSE None

\* dict[key] = value
dict_set(map, key, value) ==
    [k \in DOMAIN map \cup {key} |-> IF k = key THEN value ELSE map[k]]

\* What a call leaves in `last`.
Call(op, self, item, ref, raised, value) ==
    [op |-> op, self |-> self, item |-> item, ref |-> ref,
     raised |-> raised, value |-> value]

\* Values a call returns.
NoValue == [tag |-> "None", id |-> 0, str |-> <<>>]
ObjValue(id) == IF id = None THEN NoValue ELSE [tag |-> "obj", id |-> id, str |-> <<>>]
StrValue(s) == [tag |-> "str", id |-> 0, str |-> s]
SubValue(id, name) == [tag |-> "sub", id |-> id, str |-> name]
ExcValue(s) == [tag |-> "exc", id |-> 0, str |-> <<s>>]


\* What an operation yields: the heap it leaves, the exception it raised
\* ("none" when it returned) and the value it returned.
Result(h, raised, value) == [heap |-> h, raised |-> raised, value |-> value]
Return(h, value) == Result(h, "none", value)
Raise(h, exc) == Result(h, exc, NoValue)

---------------------------------------------------------------------------
(* Python values of the model objects' attributes *)

IntValue(n) == [tag |-> "int", n |-> n]
BoolValue(b) == [tag |-> "bool", b |-> b]
ListValue(items) == [tag |-> "list", items |-> items]
TupleValue(items) == [tag |-> "tuple", items |-> items]
EnumValue(name) == [tag |-> "enum", name |-> name]
\* A float: coef * 10^exp as repr() shows it (coef without trailing
\* zeros unless it is 0), or an infinity or a NaN.
FloatValue(coef, exp) == [tag |-> "float", kind |-> "finite", coef |-> coef, exp |-> exp]
FloatInf == [tag |-> "float", kind |-> "inf", coef |-> 0, exp |-> 0]
FloatNegInf == [tag |-> "float", kind |-> "-inf", coef |-> 0, exp |-> 0]
FloatNaN == [tag |-> "float", kind |-> "nan", coef |-> 0, exp |-> 0]

\* An ARObject that is no tree node: its class and vars(self).
Instance(cls, attrs) == [tag |-> "instance", cls |-> cls, attrs |-> attrs]

\* isinstance(value, cls)
isinstance(value, cls) == value.tag = "instance" /\ value.cls = cls

\* What a constructor yields: the new object, or the exception raised.
New(value) == [raised |-> "none", value |-> value]
NewRaise(exc) == [raised |-> exc, value |-> NoValue]

\* bool(value), as `if content:` tests it
truthy(value) ==
    IF value.tag = "str" THEN Len(value.str) > 0
    ELSE IF value.tag = "int" THEN value.n # 0
    ELSE IF value.tag = "bool" THEN value.b
    ELSE IF value.tag = "float" THEN value.kind # "finite" \/ value.coef # 0
    ELSE IF value.tag = "decimal" THEN \E i \in 1..Len(value.digits) : value.digits[i] # "0"
    ELSE IF value.tag \in {"list", "tuple"} THEN Len(value.items) > 0
    ELSE value.tag # "None"

\* str(n) of an int: its decimal digits, with a sign when negative
Digit(d) == CASE d = 0 -> "0" [] d = 1 -> "1" [] d = 2 -> "2" [] d = 3 -> "3"
              [] d = 4 -> "4" [] d = 5 -> "5" [] d = 6 -> "6" [] d = 7 -> "7"
              [] d = 8 -> "8" [] d = 9 -> "9"
RECURSIVE str_nat(_)
str_nat(n) == IF n < 10 THEN <<Digit(n)>> ELSE Append(str_nat(n \div 10), Digit(n % 10))
str_int(n) == IF n < 0 THEN <<"-">> \o str_nat(-n) ELSE str_nat(n)

\* float.__repr__: the shortest digits that read back as the float, in
\* positional form when the decimal point falls in (-4, 16], else with an
\* exponent of at least two digits.
Zeros(k) == [i \in 1..k |-> "0"]
\* The text of a finite float from its sign, its shortest digits and the
\* power of ten they are scaled by
repr_of_digits(sign, digits, exp) ==
    LET n == Len(digits)
        decpt == n + exp
        e == decpt - 1
        mag == IF e < 0 THEN 0 - e ELSE e
    IN  IF decpt > 0 - 4 /\ decpt <= 16 THEN
            IF decpt <= 0 THEN sign \o <<"0", ".">> \o Zeros(0 - decpt) \o digits
            ELSE IF decpt >= n THEN sign \o digits \o Zeros(decpt - n) \o <<".", "0">>
            ELSE sign \o SubSeq(digits, 1, decpt) \o <<".">> \o SubSeq(digits, decpt + 1, n)
        ELSE sign \o <<digits[1]>>
             \o (IF n > 1 THEN <<".">> \o SubSeq(digits, 2, n) ELSE <<>>)
             \o <<"e", IF e < 0 THEN "-" ELSE "+">>
             \o (IF mag < 10 THEN <<"0">> ELSE <<>>) \o str_nat(mag)

float_repr(f) ==
    IF f.kind = "inf" THEN <<"i", "n", "f">>
    ELSE IF f.kind = "-inf" THEN <<"-", "i", "n", "f">>
    ELSE IF f.kind = "nan" THEN <<"n", "a", "n">>
    ELSE repr_of_digits(IF f.coef < 0 THEN <<"-">> ELSE <<>>,
                        str_nat(IF f.coef < 0 THEN 0 - f.coef ELSE f.coef), f.exp)

\* int(text) of a text of digits
DigitValue(c) == CHOOSE d \in 0..9 : Digit(d) = c
RECURSIVE int_of_digits(_)
int_of_digits(s) ==
    IF Len(s) = 0 THEN 0
    ELSE 10 * int_of_digits(SubSeq(s, 1, Len(s) - 1)) + DigitValue(s[Len(s)])

\* The first place of one of the characters in the text, 0 when there is none
index_of(s, chars) ==
    IF \E i \in 1..Len(s) : s[i] \in chars
    THEN CHOOSE i \in 1..Len(s) : s[i] \in chars /\ \A j \in 1..(i - 1) : s[j] \notin chars
    ELSE 0

\* Leading zeros removed, one digit kept
RECURSIVE lstrip_zeros(_)
lstrip_zeros(s) == IF Len(s) > 1 /\ s[1] = "0" THEN lstrip_zeros(Tail(s)) ELSE s

\* A decimal.Decimal: sign, coefficient digits and exponent
Decimal(neg, digits, exp) == [tag |-> "decimal", neg |-> neg, digits |-> digits, exp |-> exp]

\* The Decimal of a mantissa text, given the place of its point (0 when it
\* has none) and the exponent that follows it
Decimal_of_mantissa(neg, mant, dot, expo) ==
    LET intpart == IF dot = 0 THEN mant ELSE SubSeq(mant, 1, dot - 1)
        fracpart == IF dot = 0 THEN <<>> ELSE SubSeq(mant, dot + 1, Len(mant))
    IN  Decimal(neg, lstrip_zeros(intpart \o fracpart), expo - Len(fracpart))

\* int(text) of an exponent text, which may bear a sign
int_of_exponent(etext) ==
    IF Len(etext) = 0 THEN 0
    ELSE IF etext[1] = "-" THEN 0 - int_of_digits(Tail(etext))
    ELSE IF etext[1] = "+" THEN int_of_digits(Tail(etext))
    ELSE int_of_digits(etext)

\* The Decimal of an unsigned text, given the place of its 'e' (0 when it
\* has none)
Decimal_of_body(neg, body, epos) ==
    LET mant == IF epos = 0 THEN body ELSE SubSeq(body, 1, epos - 1)
        etext == IF epos = 0 THEN <<>> ELSE SubSeq(body, epos + 1, Len(body))
    IN  Decimal_of_mantissa(neg, mant, index_of(mant, {"."}), int_of_exponent(etext))

\* decimal.Decimal(text) of the text of a finite number
Decimal_from_str(s) ==
    LET neg == Len(s) > 0 /\ s[1] = "-"
        body == IF neg THEN Tail(s) ELSE s
    IN  Decimal_of_body(neg, body, index_of(body, {"e", "E"}))

\* Decimal.__bool__
Decimal_is_zero(d) == \A i \in 1..Len(d.digits) : d.digits[i] = "0"

\* Trailing zeros of the coefficient moved into the exponent
RECURSIVE strip_trailing_zeros(_)
strip_trailing_zeros(d) ==
    IF Len(d.digits) > 1 /\ d.digits[Len(d.digits)] = "0"
    THEN strip_trailing_zeros(Decimal(d.neg, SubSeq(d.digits, 1, Len(d.digits) - 1), d.exp + 1))
    ELSE d

\* The precision of the default decimal context
DecimalPrec == 28

\* Decimal.normalize(): a coefficient of a float's text fits the precision
Decimal_normalize(d) ==
    IF Decimal_is_zero(d) THEN Decimal(d.neg, <<"0">>, 0) ELSE strip_trailing_zeros(d)

\* tmp == tmp.to_integral()
Decimal_is_integral(d) == Decimal_is_zero(d) \/ strip_trailing_zeros(d).exp >= 0

\* Decimal.quantize(Decimal(1)) of an integral value: the coefficient at
\* exponent 0, InvalidOperation when it has more digits than the precision
Decimal_quantize_1(d) ==
    IF Decimal_is_zero(d) THEN New(Decimal(d.neg, <<"0">>, 0))
    ELSE IF Len(d.digits) + d.exp > DecimalPrec THEN NewRaise("InvalidOperation")
    ELSE IF d.exp >= 0 THEN New(Decimal(d.neg, d.digits \o Zeros(d.exp), 0))
    ELSE New(Decimal(d.neg, SubSeq(d.digits, 1, Len(d.digits) + d.exp), 0))

\* Decimal.__str__: positional when the exponent is not positive and the
\* point falls right of -6 places, else scientific
Decimal_str(d) ==
    LET sign == IF d.neg THEN <<"-">> ELSE <<>>
        n == Len(d.digits)
        leftdigits == d.exp + n
        dotplace == IF d.exp <= 0 /\ leftdigits > 0 - 6 THEN leftdigits ELSE 1
        intpart == IF dotplace <= 0 THEN <<"0">>
                   ELSE IF dotplace >= n THEN d.digits \o Zeros(dotplace - n)
                   ELSE SubSeq(d.digits, 1, dotplace)
        fracpart == IF dotplace <= 0 THEN <<".">> \o Zeros(0 - dotplace) \o d.digits
                    ELSE IF dotplace >= n THEN <<>>
                    ELSE <<".">> \o SubSeq(d.digits, dotplace + 1, n)
        e == leftdigits - dotplace
        exppart == IF e = 0 THEN <<>>
                   ELSE <<"E", IF e < 0 THEN "-" ELSE "+">> \o str_nat(IF e < 0 THEN 0 - e ELSE e)
    IN  sign \o intpart \o fracpart \o exppart

\* str(value) of a str, an int, a float or a Decimal
str(value) ==
    IF value.tag = "int" THEN StrValue(str_int(value.n))
    ELSE IF value.tag = "float" THEN StrValue(float_repr(value))
    ELSE IF value.tag = "decimal" THEN StrValue(Decimal_str(value))
    ELSE value

\* tmp.quantize(1) if tmp % 1 == 0 else tmp.normalize()
quantize_or_normalize(tmp) ==
    IF Decimal_is_integral(tmp) THEN Decimal_quantize_1(tmp)
    ELSE New(Decimal_normalize(tmp))

\* _XMLWriter._format_float(value): a text for an infinity or a NaN, a
\* Decimal for every other float
format_float(value) ==
    IF value.kind \in {"inf", "-inf"}
    THEN New(StrValue(IF value.kind = "-inf" THEN <<"-", "I", "N", "F">> ELSE <<"I", "N", "F">>))
    ELSE IF value.kind = "nan" THEN New(StrValue(<<"N", "a", "N">>))
    ELSE quantize_or_normalize(Decimal_from_str(float_repr(value)))

---------------------------------------------------------------------------
(* _XMLWriter: the text written and the writer's bookkeeping *)

indentation_step == 2       \* Writer.__init__: super().__init__(indentation_step=2)

\* The pieces of text the writer composes.  A line of fh is the sequence of
\* the pieces written to it.
Indentation(n) == [kind |-> "indent", n |-> n, tag |-> "", attr |-> <<>>, content |-> NoValue]
\* f'<{tag}>' / f'<{tag} {attr}>'
OpenTag(tag, attr) == [kind |-> "open", n |-> 0, tag |-> tag, attr |-> attr, content |-> NoValue]
\* f'</{tag}>'
CloseTag(tag) == [kind |-> "close", n |-> 0, tag |-> tag, attr |-> <<>>, content |-> NoValue]
\* f'<{tag}/>' / f'<{tag} {attr}/>'
EmptyTag(tag, attr) == [kind |-> "empty", n |-> 0, tag |-> tag, attr |-> attr, content |-> NoValue]
\* f'<{tag}>{content}</{tag}>' / f'<{tag} {attr}>{content}</{tag}>'
ContentTag(tag, attr, content) ==
    [kind |-> "content", n |-> 0, tag |-> tag, attr |-> attr, content |-> content]
\* text written as it is
Text(s) == [kind |-> "text", n |-> 0, tag |-> "", attr |-> <<>>, content |-> s]

\* StringIO(): an open stream holding one empty line
StringIO == [closed |-> FALSE, lines |-> << <<>> >>]

\* fh.write(piece)
fh_write(fh, piece) == [fh EXCEPT !.lines[Len(fh.lines)] = Append(@, piece)]
\* fh.write('\n')
fh_newline(fh) == [fh EXCEPT !.lines = Append(@, <<>>)]

\* _XMLWriter.__init__
NewWriter ==
    [file_path |-> NoValue, fh |-> NoValue, indentation_level |-> 0, indentation_str |-> 0,
     tag_stack |-> <<>>, line_number |-> 0]

\* What a writer method yields: the writer it leaves and the exception it
\* raised ("none" when it returned).
\* A statement is given what the statements before it left, `r`, and is
\* not executed when r.skip is set: one of them raised, or the condition of
\* the `if` the statement stands in is false.  The statements of a method
\* are nested in the order they run: the first one is the innermost call,
\* the last one the outermost.
Ok(w) == [w |-> w, raised |-> "none", skip |-> FALSE]
Fail(w, exc) == [w |-> w, raised |-> exc, skip |-> TRUE]
\* `if cond:` before a statement, and the end of the statement
When(cond, r) == IF r.skip THEN r ELSE [r EXCEPT !.skip = ~cond]
EndWhen(r) == [r EXCEPT !.skip = (r.raised # "none")]

\* indentation_char * n: n spaces, none when n is negative
spaces(n) == IF n < 0 THEN 0 ELSE n

\* _str_open as it would be without the reset of the indentation.
str_open_keeping_indentation(w) ==
    [w EXCEPT !.fh = StringIO, !.line_number = 1, !.tag_stack = <<>>]

\* _XMLWriter._str_open
str_open(w) ==
    [w EXCEPT !.fh = StringIO, !.line_number = 1, !.indentation_level = 0,
              !.indentation_str = 0, !.tag_stack = <<>>]

\* open(file_path, 'w'): an open stream on the file, which starts empty
open_file(file_path) == [closed |-> FALSE, lines |-> << <<>> >>, path |-> file_path]

\* _XMLWriter._open(file_path)
open(w, file_path) ==
    [w EXCEPT !.fh = open_file(file_path), !.file_path = file_path, !.line_number = 1,
              !.indentation_level = 0, !.indentation_str = 0, !.tag_stack = <<>>]

\* _XMLWriter._close
close(w) == [w EXCEPT !.fh.closed = TRUE]

\* _XMLWriter._indent
indent(w) ==
    [w EXCEPT !.indentation_level = @ + 1,
              !.indentation_str = spaces((w.indentation_level + 1) * indentation_step)]

\* _XMLWriter._dedent
dedent(w) ==
    [w EXCEPT !.indentation_level = @ - 1,
              !.indentation_str = IF w.indentation_level - 1 = 0 THEN 0
                                  ELSE spaces((w.indentation_level - 1) * indentation_step)]

\* _XMLWriter._add_line(text)
add_line(w, text) ==
    LET fh1 == IF w.line_number > 1 THEN fh_newline(w.fh) ELSE w.fh
    IN  [w EXCEPT !.fh = fh_write(fh_write(fh1, Indentation(w.indentation_str)), text),
                  !.line_number = @ + 1]

\* _XMLWriter._add_inline_text(text)
add_inline_text(w, text) == [w EXCEPT !.fh = fh_write(@, text)]

\* _add_child as it would be without the call of _indent.
add_child_without_indent(w, tag, attr) ==
    LET w1 == add_line(w, OpenTag(tag, attr))
    IN  Ok([w1 EXCEPT !.tag_stack = Append(@, tag)])

\* _XMLWriter._add_child(tag, attr)
add_child(w, tag, attr) ==
    LET w1 == add_line(w, OpenTag(tag, attr))
    IN  Ok(indent([w1 EXCEPT !.tag_stack = Append(@, tag)]))

\* _leave_child as it would be with the closing tag written before the
\* call of _dedent.
leave_child_close_first(w) ==
    IF Len(w.tag_stack) = 0 THEN Fail(w, "IndexError")
    ELSE LET tag == w.tag_stack[Len(w.tag_stack)]
             w1 == add_line([w EXCEPT !.tag_stack = SubSeq(@, 1, Len(@) - 1)], CloseTag(tag))
         IN  Ok(dedent(w1))

\* _XMLWriter._leave_child: list.pop() on an empty stack is an IndexError
leave_child(w) ==
    IF Len(w.tag_stack) = 0 THEN Fail(w, "IndexError")
    ELSE LET tag == w.tag_stack[Len(w.tag_stack)]
             w1 == dedent([w EXCEPT !.tag_stack = SubSeq(@, 1, Len(@) - 1)])
         IN  Ok(add_line(w1, CloseTag(tag)))

\* _XMLWriter._begin_line(tag, attr)
begin_line(w, tag, attr) ==
    LET fh1 == IF w.line_number > 1 THEN fh_newline(w.fh) ELSE w.fh
        w1 == [w EXCEPT !.fh = fh_write(fh1, Indentation(w.indentation_str)),
                        !.line_number = @ + 1]
    IN  Ok(add_inline_text(w1, OpenTag(tag, attr)))

\* _XMLWriter._end_line(tag)
end_line(w, tag) == Ok([w EXCEPT !.fh = fh_write(@, CloseTag(tag))])

\* self._add_inline_text(text) if inline else self._add_line(text)
add_text(w, text, inline) ==
    IF inline THEN add_inline_text(w, text) ELSE add_line(w, text)

\* _XMLWriter._add_content(tag, content, attr, inline): content that is
\* false in a boolean context ('' and None, and also 0) gives the
\* self-closing form.
add_content(w, tag, content, attr, inline) ==
    Ok(add_text(w, IF truthy(content) THEN ContentTag(tag, attr, str(content))
                   ELSE EmptyTag(tag, attr),
                inline))

\* The methods above as statements of a writer function
do_add_inline_text(r, text) == IF r.skip THEN r ELSE Ok(add_inline_text(r.w, text))
do_add_child(r, tag, attr) == IF r.skip THEN r ELSE add_child(r.w, tag, attr)
do_leave_child(r) == IF r.skip THEN r ELSE leave_child(r.w)
do_begin_line(r, tag, attr) == IF r.skip THEN r ELSE begin_line(r.w, tag, attr)
do_end_line(r, tag) == IF r.skip THEN r ELSE end_line(r.w, tag)
do_add_content(r, tag, content, attr, inline) ==
    IF r.skip THEN r ELSE add_content(r.w, tag, content, attr, inline)
do_close(r) == IF r.skip THEN r ELSE Ok(close(r.w))

---------------------------------------------------------------------------
(* Document: owns the root packages.  Its code is outside the core; it is  *)
(* modelled from the specification's sections 3 and 4.3.                   *)

\* Document.append(package): the document becomes the package's parent.
Document_append(h, self, item) ==
    IF ~isinstance_Package(h, item) THEN Raise(h, "TypeError")
    ELSE IF h[item].name \in DOMAIN h[self].collection_map THEN Raise(h, "ValueError")
    ELSE LET h1 == [h EXCEPT ![item].parent = self]
         IN  Return([h1 EXCEPT ![self].packages = Append(@, item),
                               ![self].collection_map = dict_set(@, h[item].name, item)],
                    NoValue)

\* Document.update_ref_parts(ref_parts): the walk ends at the document,
\* which adds no path segment of its own.
Document_update_ref_parts(ref_parts) == ref_parts

---------------------------------------------------------------------------
(* Package *)

\* Package.append as it would be if a name were looked up only among the
\* items of its own kind (the packages list, or the elements list).
append_own_kind(h, self, item) ==
    LET names(list) == {h[list[i]].name : i \in 1..Len(list)}
    IN  IF isinstance_Package(h, item) THEN
            IF h[item].name \in names(h[self].packages) THEN Raise(h, "ValueError")
            ELSE LET h1 == [h EXCEPT ![item].parent = self]
                 IN  Return([h1 EXCEPT ![self].packages = Append(@, item),
                                       ![self].collection_map = dict_set(@, h[item].name, item)],
                            NoValue)
        ELSE IF isinstance_ARElement(h, item) THEN
            IF h[item].name \in names(h[self].elements) THEN Raise(h, "ValueError")
            ELSE LET h1 == [h EXCEPT ![item].parent = self]
                 IN  Return([h1 EXCEPT ![self].elements = Append(@, item),
                                       ![self].collection_map = dict_set(@, h[item].name, item)],
                            NoValue)
        ELSE Raise(h, "TypeError")

\* Package.append as it would be if the parent link were set only on an
\* item that has none yet.
append_keep_parent(h, self, item) ==
    LET h1 == IF h[item].parent = None THEN [h EXCEPT ![item].parent = self] ELSE h
    IN  IF isinstance_Package(h, item) THEN
            IF h[item].name \in DOMAIN h[self].collection_map THEN Raise(h, "ValueError")
            ELSE Return([h1 EXCEPT ![self].packages = Append(@, item),
                                   ![self].collection_map = dict_set(@, h[item].name, item)],
                        NoValue)
        ELSE IF isinstance_ARElement(h, item) THEN
            IF h[item].name \in DOMAIN h[self].collection_map THEN Raise(h, "ValueError")
            ELSE Return([h1 EXCEPT ![self].elements = Append(@, item),
                                   ![self].collection_map = dict_set(@, h[item].name, item)],
                        NoValue)
        ELSE Raise(h, "TypeError")

\* Package.append(item)
append(h, self, item) ==
    IF isinstance_Package(h, item) THEN
        IF h[item].name \in DOMAIN h[self].collection_map THEN Raise(h, "ValueError")
        ELSE LET h1 == [h EXCEPT ![item].parent = self]
             IN  Return([h1 EXCEPT ![self].packages = Append(@, item),
                                   ![self].collection_map = dict_set(@, h[item].name, item)],
                        NoValue)
    ELSE IF isinstance_ARElement(h, item) THEN
        IF h[item].name \in DOMAIN h[self].collection_map THEN Raise(h, "ValueError")
        ELSE LET h1 == [h EXCEPT ![item].parent = self]
             IN  Return([h1 EXCEPT ![self].elements = Append(@, item),
                                   ![self].collection_map = dict_set(@, h[item].name, item)],
                        NoValue)
    ELSE Raise(h, "TypeError")

\* Package.create_package as it would be if the new package were listed
\* but not entered in the index.
create_package_unindexed(h, self, name) ==
    IF name \in DOMAIN h[self].collection_map THEN Return(h, ExcValue("ValueError"))
    ELSE LET new == Len(h) + 1
             h1 == Append(h, NewObject("Package", name, <<>>))
             h2 == [h1 EXCEPT ![self].packages = Append(@, new)]
         IN  Return([h2 EXCEPT ![new].parent = self], ObjValue(new))

\* Package.create_package(name): on a name already present the ValueError
\* object is returned, not raised.
create_package(h, self, name) ==
    IF name \in DOMAIN h[self].collection_map THEN Return(h, ExcValue("ValueError"))
    ELSE LET new == Len(h) + 1
             h1 == Append(h, NewObject("Package", name, <<>>))
             h2 == [h1 EXCEPT ![self].collection_map = dict_set(@, name, new),
                              ![self].packages = Append(@, new)]
         IN  Return([h2 EXCEPT ![new].parent = self], ObjValue(new))

\* Package.make_packages as it would be without the lookup of the segment
\* in the index: a package is created for every segment.
RECURSIVE make_packages_no_lookup(_, _, _)
make_packages_no_lookup(h, self, ref) ==
    IF startswith_slash(ref) THEN Raise(h, "ValueError")
    ELSE LET parts == partition(ref)
             r == create_package(h, self, parts[1])
         IN  IF Len(parts[3]) > 0 THEN
                 IF r.value.tag = "obj" THEN make_packages_no_lookup(r.heap, r.value.id, parts[3])
                 ELSE Raise(r.heap, "AttributeError")
             ELSE r

\* Package.make_packages(ref)
RECURSIVE make_packages(_, _, _)
make_packages(h, self, ref) ==
    IF startswith_slash(ref) THEN Raise(h, "ValueError")
    ELSE LET parts == partition(ref)
             found == dict_get(h[self].collection_map, parts[1])
             r == IF found = None THEN create_package(h, self, parts[1])
                  ELSE Return(h, ObjValue(found))
         IN  IF found # None /\ ~isinstance_Package(h, found) THEN Raise(h, "KeyError")
             ELSE IF Len(parts[3]) > 0 THEN
                 IF r.value.tag = "obj" THEN make_packages(r.heap, r.value.id, parts[3])
                 ELSE Raise(r.heap, "AttributeError")
             ELSE r

\* ARObject._find_by_name(elements, name), on a list of sub-element names
RECURSIVE find_by_name(_, _, _)
find_by_name(owner, elements, name) ==
    IF Len(elements) = 0 THEN NoValue
    ELSE IF Head(elements) = name THEN SubValue(owner, name)
    ELSE find_by_name(owner, Tail(elements), name)

\* ImplementationDataType.find(ref)
ImplementationDataType_find(h, self, ref) ==
    IF find_slash(ref, 1) # 0 THEN Raise(h, "AssertionError")
    ELSE Return(h, find_by_name(self, h[self].sub_elements, ref))

\* Package.find(ref); item.find(...) is looked up on the item's class.
RECURSIVE find(_, _, _)
find(h, self, ref) ==
    LET ref1 == IF startswith_slash(ref) THEN Tail(ref) ELSE ref
        parts == partition(ref1)
        item == dict_get(h[self].collection_map, parts[1])
    IN  IF item # None /\ Len(parts[3]) > 0 THEN
            IF isinstance_Package(h, item) THEN find(h, item, parts[3])
            ELSE IF h[item].cls = "ImplementationDataType"
                 THEN ImplementationDataType_find(h, item, parts[3])
            ELSE Raise(h, "AttributeError")
        ELSE Return(h, ObjValue(item))

\* Package.update_ref_parts(ref_parts), called on the object `id`.  A walk
\* longer than the heap has objects is on a cycle of parent links and never
\* ends: Python gives up with a RecursionError.
RECURSIVE update_ref_parts(_, _, _, _)
update_ref_parts(h, id, ref_parts, fuel) ==
    IF id = None THEN [raised |-> "AttributeError", parts |-> ref_parts]
    ELSE IF h[id].cls = "Document"
         THEN [raised |-> "none", parts |-> Document_update_ref_parts(ref_parts)]
    ELSE IF h[id].cls # "Package" THEN [raised |-> "AttributeError", parts |-> ref_parts]
    ELSE IF fuel = 0 THEN [raised |-> "RecursionError", parts |-> ref_parts]
    ELSE update_ref_parts(h, h[id].parent, Append(ref_parts, h[id].name), fuel - 1)

\* The ref() body as it would be without reversed(): leaf-to-root order.
ref_body_unreversed(h, self) ==
    LET w == update_ref_parts(h, h[self].parent, <<h[self].name>>, Len(h))
    IN  IF w.raised # "none" THEN Raise(h, w.raised)
        ELSE Return(h, StrValue(join(w.parts)))

\* The body the ref() methods share once a parent is known to be set.
ref_body(h, self) ==
    LET w == update_ref_parts(h, h[self].parent, <<h[self].name>>, Len(h))
    IN  IF w.raised # "none" THEN Raise(h, w.raised)
        ELSE Return(h, StrValue(join(reversed(w.parts))))

\* CompuMethod.ref, SwBaseType.ref, ImplementationDataType.ref and the
\* ApplicationPrimitive/Array/RecordDataType.ref: None without a parent.
ref_or_none(h, self) ==
    IF h[self].parent = None THEN Return(h, NoValue) ELSE ref_body(h, self)

\* DataConstraint.ref, SwAddrMethod.ref, ConstantSpecification.ref:
\* assert self.parent is not None.
ref_assert(h, self) ==
    IF h[self].parent = None THEN Raise(h, "AssertionError") ELSE ref_body(h, self)

\* elem.ref(), looked up on the element's class; Unit and Package have none.
ref(h, self) ==
    IF h[self].cls \in RefNoneClasses THEN ref_or_none(h, self)
    ELSE IF h[self].cls \in RefAssertClasses THEN ref_assert(h, self)
    ELSE Raise(h, "AttributeError")

---------------------------------------------------------------------------
(* The element tree: insertion and references *)

Objects == 1..Len(heap)
Packages == {id \in Objects : heap[id].cls = "Package"}
Elements == {id \in Objects : heap[id].cls \in ElementClasses}

\* Document()
NewDocument == NewObject("Document", <<>>, <<>>)

\* The sub-elements an ImplementationDataType is constructed with.
SubElements(cls) == IF cls = "ImplementationDataType" THEN <<<<"a">>>> ELSE <<>>

\* The objects application code constructs: cls(name), for some classes.
Constructed(classes) == {NewObject(cls, name, SubElements(cls)) : cls \in classes, name \in Names}

\* The heaps that hold `base` and n more objects of `menu`.
RECURSIVE HeapsWith(_, _, _)
HeapsWith(base, n, menu) ==
    IF n = 0 THEN {base}
    ELSE {Append(h, o) : h \in HeapsWith(base, n - 1, menu), o \in menu}

\* The heaps application code has constructed before it inserts anything:
\* a document, MaxPackages packages and MaxElements elements of `classes`.
ConstructedHeaps(classes) ==
    UNION {HeapsWith(h, MaxElements, Constructed(classes)) :
             h \in HeapsWith(<<NewDocument>>, MaxPackages, Constructed({"Package"}))}

\* The element class of the tree specification: one whose ref() is None
\* without a parent.
TreeClasses == {"CompuMethod"}

TreeInit ==
    /\ heap \in ConstructedHeaps(TreeClasses)
    /\ last = Call("init", None, None, <<>>, "none", NoValue)
    /\ writer = NewWriter

\* document.append(item)
Do_Document_append(item) ==
    LET r == Document_append(heap, DocId, item)
    IN  /\ heap' = r.heap
        /\ last' = Call("Document.append", DocId, item, <<>>, r.raised, r.value)
        /\ UNCHANGED writer

\* package.append(item)
Package_append(self, item) ==
    LET r == append(heap, self, item)
    IN  /\ heap' = r.heap
        /\ last' = Call("append", self, item, <<>>, r.raised, r.value)
        /\ UNCHANGED writer

\* elem.ref()
Element_ref(self) ==
    LET r == ref(heap, self)
    IN  /\ heap' = r.heap
        /\ last' = Call("ref", self, None, <<>>, r.raised, r.value)
        /\ UNCHANGED writer

TreeNext ==
    \/ \E item \in Objects : Do_Document_append(item)
    \/ \E self \in Packages, item \in Objects : Package_append(self, item)
    \/ \E self \in Elements : Element_ref(self)

Spec == TreeInit /\ [][TreeNext]_vars

---------------------------------------------------------------------------
(* Claims about insertion and reference paths *)

\* Is `id` a member of the list `list`?
InList(list, id) == \E i \in 1..Len(list) : list[i] = id

\* The parent links of `id` lead to the Document.
RECURSIVE RootedInDocument(_, _, _)
RootedInDocument(h, id, fuel) ==
    /\ fuel > 0
    /\ h[id].parent # None
    /\ \/ h[h[id].parent].cls = "Document"
       \/ RootedInDocument(h, h[id].parent, fuel - 1)

Rooted(h, id) == RootedInDocument(h, id, Len(h))

\* The short names from the root package down to `id`, joined by '/':
\* the path of the parent, a '/', and the object's own name.
RECURSIVE PathFromRoot(_, _)
PathFromRoot(h, id) ==
    IF h[h[id].parent].cls = "Document" THEN h[id].name
    ELSE PathFromRoot(h, h[id].parent) \o <<Slash>> \o h[id].name

\* C1: Package.append of a Package or an ARElement whose short name is
\* already in the package's index raises ValueError, whether a sub-package
\* or an element holds the name, and leaves the package's packages list,
\* elements list and index as they were.
C1_DuplicateAppendRaises ==
    [][(/\ last'.op = "append"
        /\ (isinstance_Package(heap, last'.item) \/ isinstance_ARElement(heap, last'.item))
        /\ heap[last'.item].name \in DOMAIN heap[last'.self].collection_map)
       => (/\ last'.raised = "ValueError"
           /\ heap'[last'.self].packages = heap[last'.self].packages
           /\ heap'[last'.self].elements = heap[last'.self].elements
           /\ heap'[last'.self].collection_map = heap[last'.self].collection_map)]_vars

\* A package was appended to a package in which another object, an
\* element, holds its name; the call raised.
C1_Witness ==
    /\ last.op = "append"
    /\ last.raised = "ValueError"
    /\ isinstance_Package(heap, last.item)
    /\ LET holder == dict_get(heap[last.self].collection_map, heap[last.item].name)
       IN  holder # None /\ holder # last.item /\ isinstance_ARElement(heap, holder)

\* C2: ref() of an element whose parent links lead to the document returns
\* the short names from the root package down to the element, root first,
\* joined by '/', at any nesting depth.
C2_RefIsRootToLeafPath ==
    (last.op = "ref" /\ Rooted(heap, last.self))
        => (/\ last.raised = "none"
            /\ last.value = StrValue(PathFromRoot(heap, last.self)))

\* ref() returned "a/b/a": element "a" in package "b" in root package "a".
C2_Witness ==
    /\ last.op = "ref"
    /\ last.value = StrValue(<<"a", Slash, "b", Slash, "a">>)

\* C3: once an element owned by a package P has been appended to another
\* package Q, ref() in the state the append leaves is computed from the new
\* parent link: it is the path through Q when Q is rooted in the document,
\* and it is never the path through P when the two paths differ.
C3_RefFollowsReparenting ==
    [][(/\ last'.op = "append"
        /\ last'.raised = "none"
        /\ isinstance_ARElement(heap, last'.item)
        /\ heap[last'.item].parent \notin {None, last'.self})
       => LET item == last'.item
              Q == last'.self
              P == heap[item].parent
              r == ref(heap', item)
          IN  /\ Rooted(heap', Q)
                    => /\ r.raised = "none"
                       /\ r.value = StrValue(PathFromRoot(heap', Q) \o <<Slash>> \o heap'[item].name)
              /\ (Rooted(heap', P) /\ Rooted(heap, item) /\ Rooted(heap', Q)
                    /\ PathFromRoot(heap', P) # PathFromRoot(heap', Q))
                    => r.value # StrValue(PathFromRoot(heap, item))]_vars

\* An element listed in a package P was appended to another package Q,
\* both rooted in the document under different paths.
C3_Witness ==
    /\ last.op = "append"
    /\ last.raised = "none"
    /\ isinstance_ARElement(heap, last.item)
    /\ Rooted(heap, last.self)
    /\ \E P \in Packages :
          /\ P # last.self
          /\ InList(heap[P].elements, last.item)
          /\ Rooted(heap, P)
          /\ PathFromRoot(heap, P) # PathFromRoot(heap, last.self)

---------------------------------------------------------------------------
(* ref() on every element class that defines it *)

\* A document, a package "a" and MaxElements elements of any class.
RefInit ==
    /\ heap \in HeapsWith(<<NewDocument, NewObject("Package", <<"a">>, <<>>)>>,
                          MaxElements, Constructed(ElementClasses))
    /\ last = Call("init", None, None, <<>>, "none", NoValue)
    /\ writer = NewWriter

RefNext ==
    \/ \E item \in Objects : Do_Document_append(item)
    \/ \E self \in Packages, item \in Objects : Package_append(self, item)
    \/ \E self \in Elements : Element_ref(self)

RefSpec == RefInit /\ [][RefNext]_vars

\* C4: ref() on an element without a parent returns None and does not
\* raise, for each of the nine element classes that define ref().
C4_RefWithoutParentIsNone ==
    (/\ last.op = "ref"
     /\ heap[last.self].cls \in RefClasses
     /\ heap[last.self].parent = None)
        => (last.raised = "none" /\ last.value = NoValue)

---------------------------------------------------------------------------
(* Packages made and found by path *)

\* The element classes of the path specification: one without find(), and
\* ImplementationDataType, which has one.
PathClasses == {"CompuMethod", "ImplementationDataType"}

\* A document, a package "a" and MaxElements elements.
PathInit ==
    /\ heap \in HeapsWith(<<NewDocument, NewObject("Package", <<"a">>, <<>>)>>,
                          MaxElements, Constructed(PathClasses))
    /\ last = Call("init", None, None, <<>>, "none", NoValue)
    /\ writer = NewWriter

\* The objects a heap of the path specification may hold.
MaxHeap == 2 + MaxElements + MaxCreated

\* package.create_package(name)
Package_create_package(self, name) ==
    LET r == create_package(heap, self, name)
    IN  /\ Len(r.heap) <= MaxHeap
        /\ heap' = r.heap
        /\ last' = Call("create_package", self, None, name, r.raised, r.value)
        /\ UNCHANGED writer

\* package.make_packages(ref)
Package_make_packages(self, path) ==
    LET r == make_packages(heap, self, path)
    IN  /\ Len(r.heap) <= MaxHeap
        /\ heap' = r.heap
        /\ last' = Call("make_packages", self, None, path, r.raised, r.value)
        /\ UNCHANGED writer

\* package.find(ref)
Package_find(self, path) ==
    LET r == find(heap, self, path)
    IN  /\ heap' = r.heap
        /\ last' = Call("find", self, None, path, r.raised, r.value)
        /\ UNCHANGED writer

\* The packages that are no other package's child: paths are given to
\* these, and the calls recurse into the packages below them.
RootPackages == {id \in Packages : heap[id].parent = None}

\* Elements are appended to any package; packages come into being below
\* the root through create_package and make_packages.
PathNext ==
    \/ \E self \in Packages, item \in Elements : Package_append(self, item)
    \/ \E self \in Packages, name \in Names : Package_create_package(self, name)
    \/ \E self \in RootPackages, path \in Paths : Package_make_packages(self, path)
    \/ \E self \in RootPackages, path \in Paths : Package_find(self, path)

PathSpec == PathInit /\ [][PathNext]_vars

\* No two entries of a package's packages list bear the same name.
NoDuplicatePackages(h) ==
    \A p \in 1..Len(h) :
        \A i, j \in 1..Len(h[p].packages) :
            h[h[p].packages[i]].name = h[h[p].packages[j]].name => i = j

\* C7: make_packages(path) is idempotent.  In the state a call leaves, the
\* same call on the same package has the same outcome (the same deepest
\* Package object when the first call returned one), creates no object and
\* changes no list, index or parent link; and no package holds two
\* sub-packages of one name, so existing leading segments were reused.
C7_MakePackagesIdempotent ==
    [][last'.op = "make_packages"
       => LET again == make_packages(heap', last'.self, last'.ref)
          IN  /\ again.heap = heap'
              /\ again.raised = last'.raised
              /\ again.value = last'.value
              /\ last'.raised = "none"
                    => /\ last'.value.tag = "obj"
                       /\ isinstance_Package(heap', last'.value.id)
              /\ NoDuplicatePackages(heap')]_vars

\* make_packages("a/b") returned a package it created under a
\* sub-package "a" that held something before the call: the leading
\* segment was there already.
C7_Witness ==
    /\ last.op = "make_packages"
    /\ last.raised = "none"
    /\ last.ref = <<"a", Slash, "b">>
    /\ last.value.tag = "obj"
    /\ last.value.id = Len(heap)
    /\ LET mid == heap[last.value.id].parent
       IN  /\ mid # last.self
           /\ Len(heap[mid].packages) + Len(heap[mid].elements) > 1

\* The segments of a path: the strings between its slashes.
RECURSIVE split(_)
split(s) ==
    LET parts == partition(s)
    IN  IF Len(parts[2]) = 0 THEN <<parts[1]>> ELSE <<parts[1]>> \o split(parts[3])

\* A path of non-empty segments, with no leading or trailing slash.
WellFormed(path) == \A i \in 1..Len(split(path)) : Len(split(path)[i]) > 0

\* The descendant a list of segments names below `self`, segment by
\* segment: the child of that name in a package's index, the sub-element
\* of that name in an element that has sub-elements, None when there is
\* no such child at some level.
RECURSIVE Descend(_, _, _)
Descend(h, self, segs) ==
    IF Len(segs) = 0 THEN ObjValue(self)
    ELSE IF isinstance_Package(h, self) THEN
        LET child == dict_get(h[self].collection_map, Head(segs))
        IN  IF child = None THEN NoValue ELSE Descend(h, child, Tail(segs))
    ELSE IF Len(segs) = 1 THEN find_by_name(self, h[self].sub_elements, Head(segs))
    ELSE NoValue

\* C8: find(path) with a well-formed path does not raise; it returns the
\* descendant the segments name when every segment exists and None when
\* some segment names no child at its level, also when an earlier segment
\* names a leaf element.
C8_FindReturnsNoneOrDescendant ==
    (last.op = "find" /\ WellFormed(last.ref))
        => (/\ last.raised = "none"
            /\ last.value = Descend(heap, last.self, split(last.ref)))

---------------------------------------------------------------------------
(* Reference objects *)

MaxRefs == 1        \* reference objects constructed in a run of KindSpec
MaxOwners == 1      \* owners of reference fields constructed in a run of FieldSpec

\* The reference classes whose constructor takes the path alone, each with
\* the one destination kind it passes on to BaseRef.__init__.
SingleKind ==
    [CompuMethodRef |-> "COMPU_METHOD",
     FunctionPtrSignatureRef |-> "BSW_MODULE_ENTRY",
     ImplementationDataTypeRef |-> "IMPLEMENTATION_DATA_TYPE",
     SwAddrMethodRef |-> "SW_ADDR_METHOD",
     SwBaseTypeRef |-> "SW_BASE_TYPE",
     DataConstraintRef |-> "DATA_CONSTR",
     PhysicalDimensionRef |-> "PHYSICAL_DIMENSION",
     UnitRef |-> "UNIT",
     IndexDataTypeRef |-> "APPLICATION_PRIMITIVE_DATA_TYPE",
     ConstantRef |-> "CONSTANT_SPECIFICATION"]
SingleKindRefs == DOMAIN SingleKind

\* ApplicationDataTypeRef._accepted_subtypes
ApplicationDataTypeKinds ==
    {"APPLICATION_ARRAY_DATA_TYPE", "APPLICATION_ASSOC_MAP_DATA_TYPE",
     "APPLICATION_COMPOSITE_DATA_TYPE", "APPLICATION_DATA_TYPE",
     "APPLICATION_DEFERRED_DATA_TYPE", "APPLICATION_PRIMITIVE_DATA_TYPE",
     "APPLICATION_RECORD_DATA_TYPE"}

\* AutosarDataTypeRef._accepted_subtypes
AutosarDataTypeKinds ==
    ApplicationDataTypeKinds \cup
    {"ABSTRACT_IMPLEMENTATION_DATA_TYPE", "AUTOSAR_DATA_TYPE",
     "IMPLEMENTATION_DATA_TYPE"}

RefObjClasses == SingleKindRefs \cup {"ApplicationDataTypeRef", "AutosarDataTypeRef"}

\* cls._accepted_subtypes()
accepted_subtypes(cls) ==
    IF cls \in SingleKindRefs THEN {SingleKind[cls]}
    ELSE IF cls = "ApplicationDataTypeRef" THEN ApplicationDataTypeKinds
    ELSE AutosarDataTypeKinds

\* The destination kinds the reference classes name.
IdentifiableSubTypes == UNION {accepted_subtypes(cls) : cls \in RefObjClasses}

\* A dest argument that the caller leaves out.
NotGiven == "<not given>"

\* The path strings given to reference constructors and reference fields.
RefPaths == {<<Slash, "a">>, <<Slash, "b">>}

\* The attributes of the classes that hold references, in the order their
\* constructors assign them, each with the reference class of the field.
RefFields(cls) ==
    IF cls = "SwTextProps" THEN <<<<"base_type_ref", "SwBaseTypeRef">>>>
    ELSE IF cls = "SwDataDefPropsConditional" THEN
        << <<"sw_addr_method_ref", "SwAddrMethodRef">>,
           <<"base_type_ref", "SwBaseTypeRef">>,
           <<"compu_method_ref", "CompuMethodRef">>,
           <<"data_constraint_ref", "DataConstraintRef">>,
           <<"impl_data_type_ref", "ImplementationDataTypeRef">>,
           <<"unit_ref", "UnitRef">> >>
    ELSE IF cls = "Unit" THEN <<<<"physical_dimension_ref", "PhysicalDimensionRef">>>>
    ELSE <<>>

\* The attributes of an object of the class that the model keeps.
AttrsOf(cls) ==
    {RefFields(cls)[i][1] : i \in 1..Len(RefFields(cls))}
        \cup (IF cls = "Unit" THEN {"display_name"} ELSE {})

\* An object of this part of the model: a reference (value, dest) or an
\* owner of reference fields (attrs), every attribute None at first.
NewRefObject(cls, value, dest) ==
    [cls |-> cls, value |-> value, dest |-> dest,
     attrs |-> [a \in AttrsOf(cls) |-> NoValue]]

\* SingleLanguageUnitNames(display_name)
SingleLanguageUnitNames(s) == [tag |-> "SingleLanguageUnitNames", id |-> 0, str |-> s]

\* BaseRef.__init__ as it would be without the test of dest.
BaseRef_init_unchecked(h, cls, value, dest) ==
    Return(Append(h, NewRefObject(cls, value, dest)), ObjValue(Len(h) + 1))

\* BaseRef.__init__(value, dest): an exception leaves no object behind.
BaseRef_init(h, cls, value, dest) ==
    IF dest \in accepted_subtypes(cls)
    THEN Return(Append(h, NewRefObject(cls, value, dest)), ObjValue(Len(h) + 1))
    ELSE Raise(h, "ValueError")

\* cls(value) or cls(value, dest): the single-kind classes take the path
\* alone, the two data type reference classes inherit BaseRef.__init__ and
\* need both arguments; a call with another argument count is a TypeError.
Ref_new(h, cls, value, dest) ==
    IF cls \in SingleKindRefs THEN
        IF dest = NotGiven THEN BaseRef_init(h, cls, value, SingleKind[cls])
        ELSE Raise(h, "TypeError")
    ELSE IF dest = NotGiven THEN Raise(h, "TypeError")
    ELSE BaseRef_init(h, cls, value, dest)

\* str(ref): BaseRef.__str__ returns self.value, and str() raises a
\* TypeError when that is not a string.
BaseRef_str(h, self) ==
    IF h[self].value.tag = "str" THEN Return(h, h[self].value)
    ELSE Raise(h, "TypeError")

RefObjects == {id \in 1..Len(heap) : heap[id].cls \in RefObjClasses}

\* cls(value) / cls(value, dest)
Construct_Ref(cls, value, dest) ==
    /\ Cardinality(RefObjects) < MaxRefs
    /\ LET r == Ref_new(heap, cls, StrValue(value), dest)
       IN  /\ heap' = r.heap
           /\ last' = Call("BaseRef", r.value.id, [cls |-> cls, dest |-> dest],
                           value, r.raised, r.value)
           /\ UNCHANGED writer

\* str(ref)
Ref_str(self) ==
    LET r == BaseRef_str(heap, self)
    IN  /\ heap' = r.heap
        /\ last' = Call("str", self, None, <<>>, r.raised, r.value)
        /\ UNCHANGED writer

KindInit ==
    /\ heap = <<>>
    /\ last = Call("init", None, None, <<>>, "none", NoValue)
    /\ writer = NewWriter

KindNext ==
    \/ \E cls \in RefObjClasses, value \in RefPaths,
          dest \in IdentifiableSubTypes \cup {NotGiven} : Construct_Ref(cls, value, dest)
    \/ \E self \in RefObjects : Ref_str(self)

KindSpec == KindInit /\ [][KindNext]_vars

\* C5: every reference object that exists has a dest of its class's
\* accepted set; a constructor call that names a dest outside that set
\* raises; and a CompuMethodRef that was constructed has the COMPU_METHOD
\* kind and the path given as its string conversion.
C5_DestKindAccepted ==
    /\ \A id \in RefObjects : heap[id].dest \in accepted_subtypes(heap[id].cls)
    /\ (/\ last.op = "BaseRef"
        /\ last.item.dest # NotGiven
        /\ last.item.dest \notin accepted_subtypes(last.item.cls))
            => last.raised # "none"
    /\ (/\ last.op = "BaseRef"
        /\ last.item.cls = "CompuMethodRef"
        /\ last.raised = "none")
            => /\ last.item.dest = NotGiven
               /\ heap[last.value.id].dest = "COMPU_METHOD"
               /\ BaseRef_str(heap, last.value.id) = Return(heap, StrValue(last.ref))

\* ApplicationDataTypeRef(path, COMPU_METHOD) raised the ValueError of
\* BaseRef.__init__.
C5_Witness ==
    /\ last.op = "BaseRef"
    /\ last.item = [cls |-> "ApplicationDataTypeRef", dest |-> "COMPU_METHOD"]
    /\ last.raised = "ValueError"

---------------------------------------------------------------------------
(* Fields that take a reference as a path string or as an instance *)

\* ARObject._set_attr_from_str_or_direct(attr_name, value, type_name) on
\* the object `self`
set_attr_from_str_or_direct(h, self, attr_name, value, type_name) ==
    IF value.tag = "str" THEN
        LET r == Ref_new(h, type_name, value, NotGiven)
        IN  IF r.raised # "none" THEN r
            ELSE Return([r.heap EXCEPT ![self].attrs[attr_name] = r.value], NoValue)
    ELSE IF value.tag = "obj" /\ h[value.id].cls = type_name THEN
        Return([h EXCEPT ![self].attrs[attr_name] = value], NoValue)
    ELSE Raise(h, "TypeError")

\* ARObject._assign_optional(attr_name, value, type_name) with a reference
\* class as type_name: _assign hands it to _set_attr_from_str_or_direct.
assign_optional(h, self, attr_name, value, type_name) ==
    IF value # NoValue THEN set_attr_from_str_or_direct(h, self, attr_name, value, type_name)
    ELSE Return(h, NoValue)

\* The _assign_optional calls of a constructor on its reference fields, in
\* source order; the first exception ends the constructor.
RECURSIVE assign_fields(_, _, _, _)
assign_fields(h, self, fields, args) ==
    IF Len(fields) = 0 THEN Return(h, NoValue)
    ELSE LET f == Head(fields)
             r == assign_optional(h, self, f[1], args[f[1]], f[2])
         IN  IF r.raised # "none" THEN r
             ELSE assign_fields(r.heap, self, Tail(fields), args)

\* SwTextProps(...) / SwDataDefPropsConditional(...), the reference
\* arguments in args and every other argument left at None.  An exception
\* leaves no object behind.
Props_init(h, cls, args) ==
    LET self == Len(h) + 1
        r == assign_fields(Append(h, NewRefObject(cls, NoValue, "None")), self,
                           RefFields(cls), args)
    IN  IF r.raised # "none" THEN Raise(h, r.raised)
        ELSE Return(r.heap, ObjValue(self))

\* Unit(name, display_name, physical_dimension_ref=...), factor and offset
\* left at None.
Unit_init(h, display_name, physical_dimension_ref) ==
    LET self == Len(h) + 1
        h0 == Append(h, NewRefObject("Unit", NoValue, "None"))
        r1 == IF display_name = NoValue THEN Return(h0, NoValue)
              ELSE IF display_name.tag = "str" THEN
                  Return([h0 EXCEPT ![self].attrs["display_name"] =
                                         SingleLanguageUnitNames(display_name.str)],
                         NoValue)
              ELSE IF display_name.tag = "SingleLanguageUnitNames" THEN
                  Return([h0 EXCEPT ![self].attrs["display_name"] = display_name], NoValue)
              ELSE Raise(h0, "TypeError")
        r2 == IF r1.raised # "none" THEN r1
              ELSE IF physical_dimension_ref = NoValue THEN r1
              ELSE IF physical_dimension_ref.tag = "str" THEN
                  LET r == Ref_new(r1.heap, "PhysicalDimensionRef", display_name, NotGiven)
                  IN  IF r.raised # "none" THEN r
                      ELSE Return([r.heap EXCEPT ![self].attrs["physical_dimension_ref"] = r.value],
                                  NoValue)
              ELSE IF /\ physical_dimension_ref.tag = "obj"
                      /\ r1.heap[physical_dimension_ref.id].cls = "PhysicalDimensionRef" THEN
                  Return([r1.heap EXCEPT ![self].attrs["physical_dimension_ref"] =
                                              physical_dimension_ref],
                         NoValue)
              ELSE Raise(r1.heap, "TypeError")
    IN  IF r2.raised # "none" THEN Raise(h, r2.raised)
        ELSE Return(r2.heap, ObjValue(self))

OwnerClasses == {"Unit", "SwTextProps", "SwDataDefPropsConditional"}
Owners == {id \in 1..Len(heap) : heap[id].cls \in OwnerClasses}

\* What application code passes for a reference field: nothing, a path
\* string, or an object it has constructed.
FieldArgs == {NoValue} \cup {StrValue(p) : p \in RefPaths}
                \cup {ObjValue(id) : id \in 1..Len(heap)}

\* What application code passes as display_name: nothing, a string, or an
\* instance of SingleLanguageUnitNames.
DisplayNames == {NoValue} \cup {StrValue(p) : p \in RefPaths}
                    \cup {SingleLanguageUnitNames(<<"a">>)}

\* Unit(name, display_name=d, physical_dimension_ref=p)
Construct_Unit(display_name, physical_dimension_ref) ==
    /\ Cardinality(Owners) < MaxOwners
    /\ LET r == Unit_init(heap, display_name, physical_dimension_ref)
       IN  /\ heap' = r.heap
           /\ last' = Call("Unit", r.value.id,
                           [attr |-> "physical_dimension_ref", type |-> "PhysicalDimensionRef",
                            display_name |-> display_name],
                           physical_dimension_ref, r.raised, r.value)
           /\ UNCHANGED writer

\* SwTextProps(base_type_ref=v) / SwDataDefPropsConditional(<field>=v)
Construct_Props(cls, i, value) ==
    /\ Cardinality(Owners) < MaxOwners
    /\ LET f == RefFields(cls)[i]
           args == [a \in AttrsOf(cls) |-> IF a = f[1] THEN value ELSE NoValue]
           r == Props_init(heap, cls, args)
       IN  /\ heap' = r.heap
           /\ last' = Call(cls, r.value.id,
                           [attr |-> f[1], type |-> f[2], display_name |-> NoValue],
                           value, r.raised, r.value)
           /\ UNCHANGED writer

\* Nothing constructed yet, or one reference object of a field's class.
FieldInit ==
    /\ heap \in {<<>>} \cup
          {<<NewRefObject(cls, StrValue(p), SingleKind[cls])>> :
              cls \in {"PhysicalDimensionRef", "SwBaseTypeRef", "CompuMethodRef"},
              p \in RefPaths}
    /\ last = Call("init", None, None, <<>>, "none", NoValue)
    /\ writer = NewWriter

FieldNext ==
    \/ \E d \in DisplayNames, p \in FieldArgs : Construct_Unit(d, p)
    \/ \E cls \in OwnerClasses \ {"Unit"} :
          \E i \in 1..Len(RefFields(cls)), v \in FieldArgs : Construct_Props(cls, i, v)

FieldSpec == FieldInit /\ [][FieldNext]_vars

\* C6: an owner constructed with a path string p for a reference field
\* stores in that field a reference of the field's class whose string
\* conversion is p.
C6_PathStringStoredAsRef ==
    (last.op \in OwnerClasses /\ last.ref.tag = "str")
        => /\ last.raised = "none"
           /\ LET stored == heap[last.self].attrs[last.item.attr]
              IN  /\ stored.tag = "obj"
                  /\ heap[stored.id].cls = last.item.type
                  /\ BaseRef_str(heap, stored.id) = Return(heap, last.ref)

---------------------------------------------------------------------------
(* CompuMethod and constraint objects, and ARObject.is_empty *)

\* CompuRational.__init__(numerator, denominator): a list or a tuple is
\* stored as tuple(...)
CompuRational_init(numerator, denominator) ==
    IF numerator # NoValue /\ numerator.tag \notin {"tuple", "list"} THEN NewRaise("TypeError")
    ELSE IF denominator # NoValue /\ denominator.tag \notin {"tuple", "list"}
         THEN NewRaise("TypeError")
    ELSE New(Instance("CompuRational",
             [numerator |-> IF numerator # NoValue THEN TupleValue(numerator.items) ELSE NoValue,
              denominator |-> IF denominator # NoValue THEN TupleValue(denominator.items)
                              ELSE NoValue]))

\* CompuConst.__init__(value)
CompuConst_init(value) == New(Instance("CompuConst", [value |-> value]))

\* CompuScale.__init__, its arguments in the record a
CompuScale_init(a) ==
    LET inverse_value ==
            IF a.inverse_value = NoValue THEN New(NoValue)
            ELSE IF isinstance(a.inverse_value, "CompuConst") THEN New(a.inverse_value)
            ELSE IF a.inverse_value.tag \in {"int", "str"} THEN CompuConst_init(a.inverse_value)
            ELSE NewRaise("TypeError")
    IN  IF inverse_value.raised # "none" THEN inverse_value
        ELSE New(Instance("CompuScale",
                 [content |-> a.content, lower_limit |-> a.lower_limit,
                  upper_limit |-> a.upper_limit, label |-> a.label, symbol |-> a.symbol,
                  desc |-> a.desc, mask |-> a.mask, inverse_value |-> inverse_value.value,
                  lower_limit_type |-> a.lower_limit_type,
                  upper_limit_type |-> a.upper_limit_type]))

\* Computation.__init__(compu_scales, default_value)
Computation_init(compu_scales, default_value) ==
    New(Instance("Computation",
        [compu_scales |-> compu_scales,
         default_value |-> IF isinstance(default_value, "CompuConst") THEN default_value
                           ELSE IF default_value.tag \in {"int", "str"}
                                THEN CompuConst_init(default_value).value
                           ELSE NoValue]))

\* MultiLanguageOverviewParagraph.__init__(): no paragraph given
MultiLanguageOverviewParagraph_init ==
    New(Instance("MultiLanguageOverviewParagraph", [elements |-> ListValue(<<>>)]))

\* ScaleConstraint.__init__ (LimitObject.__init__ first), its arguments
\* in the record a
ScaleConstraint_init(a) ==
    New(Instance("ScaleConstraint",
        [lower_limit |-> a.lower_limit, upper_limit |-> a.upper_limit,
         lower_limit_type |-> a.lower_limit_type, upper_limit_type |-> a.upper_limit_type,
         label |-> a.label, desc |-> a.desc, validity |-> a.validity]))

\* Subclasses of LimitObject
LimitObjectClasses == {"ScaleConstraint"}

\* ARObject.is_empty
ARObject_is_empty(self) ==
    \A key \in DOMAIN self.attrs :
        LET value == self.attrs[key]
        IN  IF value.tag = "list" THEN ~(Len(value.items) > 0)
            ELSE ~(value # NoValue)

\* ARObject.is_empty_with_ignore(ignore_set)
is_empty_with_ignore(self, ignore_set) ==
    \A key \in DOMAIN self.attrs :
        key \notin ignore_set =>
            LET value == self.attrs[key]
            IN  IF value.tag = "list" THEN ~(Len(value.items) > 0)
                ELSE ~(value # NoValue)

\* LimitObject.is_empty
LimitObject_is_empty(self) ==
    is_empty_with_ignore(self, {"lower_limit_type", "upper_limit_type"})

\* elem.is_empty, looked up on the object's class
is_empty(self) ==
    IF self.cls \in LimitObjectClasses THEN LimitObject_is_empty(self)
    ELSE ARObject_is_empty(self)

\* The objects application code constructs ---------------------------------

\* Coefficient arguments: None, lists and tuples, empty and not.
CoefficientArgs ==
    {NoValue, ListValue(<<>>), TupleValue(<<>>), ListValue(<<IntValue(0), IntValue(1)>>)}
\* The values of a CompuConst: None, numbers and a text.
ConstArgs == {NoValue, IntValue(0), IntValue(1), StrValue(<<"a">>)}
\* Limits and masks
NumberArgs == {NoValue, IntValue(0)}
\* lower_limit_type / upper_limit_type: the default, or None given
IntervalTypes == {EnumValue("CLOSED"), NoValue}

Built(results) == {r.value : r \in {x \in results : x.raised = "none"}}

CompuRationals ==
    Built({CompuRational_init(n, d) : n \in CoefficientArgs, d \in {NoValue, ListValue(<<>>)}})
CompuConsts == Built({CompuConst_init(v) : v \in ConstArgs})
CompuScales ==
    Built({CompuScale_init(
               [content |-> c, lower_limit |-> l, upper_limit |-> l, label |-> NoValue,
                symbol |-> NoValue, desc |-> d, mask |-> m, inverse_value |-> NoValue,
                lower_limit_type |-> t, upper_limit_type |-> t]) :
           c \in {NoValue} \cup CompuConsts \cup CompuRationals,
           l \in NumberArgs, m \in NumberArgs, t \in IntervalTypes,
           d \in {NoValue} \cup Built({MultiLanguageOverviewParagraph_init})})
Computations ==
    Built({Computation_init(s, v) :
           s \in {NoValue, ListValue(<<>>)} \cup
                 {ListValue(<<x>>) : x \in {y \in CompuScales : y.attrs.desc = NoValue
                                                                  /\ y.attrs.mask = NoValue}},
           v \in {NoValue, IntValue(0), StrValue(<<"a">>)}})
ScaleConstraints ==
    Built({ScaleConstraint_init(
               [lower_limit |-> l, upper_limit |-> u, lower_limit_type |-> t,
                upper_limit_type |-> t, label |-> b, desc |-> NoValue, validity |-> v]) :
           l \in NumberArgs, u \in NumberArgs, t \in IntervalTypes,
           b \in {NoValue, StrValue(<<"a">>)}, v \in {NoValue, EnumValue("VALID")}})

ModelObjects ==
    CompuRationals \cup CompuConsts \cup CompuScales \cup Computations
        \cup ScaleConstraints \cup Built({MultiLanguageOverviewParagraph_init})

\* The attribute names given in an ignore set
IgnoreSets == SUBSET {"lower_limit_type", "upper_limit_type", "numerator"}

\* elem.is_empty
Get_is_empty(self) ==
    /\ last' = Call("is_empty", self, None, <<>>, "none", BoolValue(is_empty(heap[self])))
    /\ UNCHANGED <<heap, writer>>

\* elem.is_empty_with_ignore(ignore_set)
Call_is_empty_with_ignore(self, ignore_set) ==
    /\ last' = Call("is_empty_with_ignore", self, ignore_set, <<>>, "none",
                    BoolValue(is_empty_with_ignore(heap[self], ignore_set)))
    /\ UNCHANGED <<heap, writer>>

\* One object constructed by application code.
EmptyInit ==
    /\ heap \in {<<elem>> : elem \in ModelObjects}
    /\ last = Call("init", None, None, <<>>, "none", NoValue)
    /\ writer = NewWriter

EmptyNext ==
    \/ \E self \in 1..Len(heap) : Get_is_empty(self)
    \/ \E self \in 1..Len(heap), ignore_set \in IgnoreSets :
          Call_is_empty_with_ignore(self, ignore_set)

EmptySpec == EmptyInit /\ [][EmptyNext]_vars

\* None, or a list or tuple without items
NoneOrEmptySequence(value) ==
    value = NoValue \/ (value.tag \in {"list", "tuple"} /\ Len(value.items) = 0)

\* C9: is_empty is true exactly when every instance attribute is None or
\* an empty sequence (for a LimitObject: every attribute but the two limit
\* types), and is_empty_with_ignore(S) is that test on the attributes whose
\* names are not in S.
C9_IsEmptyIffAllNoneOrEmptySequence ==
    LET all(self, S) ==
            \A key \in DOMAIN self.attrs \ S : NoneOrEmptySequence(self.attrs[key])
    IN  /\ last.op = "is_empty"
            => last.value =
                 BoolValue(all(heap[last.self],
                               IF heap[last.self].cls \in LimitObjectClasses
                               THEN {"lower_limit_type", "upper_limit_type"} ELSE {}))
        /\ last.op = "is_empty_with_ignore"
            => last.value = BoolValue(all(heap[last.self], last.item))

---------------------------------------------------------------------------
(* Writer: the functions that write CompuMethod and constraint objects *)

\* ar_enum.enum_to_xml(value): the XML text of an enumeration member
enum_to_xml(value) == StrValue(<<value.name>>)

\* Writer._write_break(elem, inline)
write_break(r, elem, inline) ==
    IF r.skip THEN r
    ELSE IF ~isinstance(elem, "Break") THEN Fail(r.w, "AssertionError")
    ELSE do_add_content(r, "BR", StrValue(<<>>), <<>>, inline)

\* Writer._collect_emphasis_text_attributes(elem)
collect_emphasis_text_attributes(elem) ==
    (IF elem.attrs.color # NoValue THEN << <<"COLOR", elem.attrs.color>> >> ELSE <<>>)
        \o (IF elem.attrs.font # NoValue
            THEN << <<"FONT", enum_to_xml(elem.attrs.font)>> >> ELSE <<>>)
        \o (IF elem.attrs.type # NoValue
            THEN << <<"TYPE", enum_to_xml(elem.attrs.type)>> >> ELSE <<>>)

\* Writer._write_emphasis_text(elem, inline)
write_emphasis_text(r, elem, inline) ==
    IF r.skip THEN r
    ELSE IF ~isinstance(elem, "EmphasisText") THEN Fail(r.w, "AssertionError")
    ELSE IF Len(elem.attrs.elements.items) = 1 /\ elem.attrs.elements.items[1].tag = "str"
         THEN do_add_content(r, "E", elem.attrs.elements.items[1],
                             collect_emphasis_text_attributes(elem), inline)
    ELSE Fail(r.w, "NotImplementedError")

\* Writer._write_index_entry(elem, inline)
write_index_entry(r, elem, inline) ==
    IF r.skip THEN r
    ELSE IF ~isinstance(elem, "IndexEntry") THEN Fail(r.w, "AssertionError")
    ELSE do_add_content(r, "IE", elem.attrs.text, <<>>, inline)

\* Writer._collect_technical_term_attributes(elem, attr)
collect_technical_term_attributes(elem) ==
    (IF elem.attrs.tex_render # NoValue
     THEN << <<"TEX-RENDER", elem.attrs.tex_render>> >> ELSE <<>>)
        \o (IF elem.attrs.type # NoValue THEN << <<"TYPE", elem.attrs.type>> >> ELSE <<>>)

\* Writer._write_technical_term(elem, inline)
write_technical_term(r, elem, inline) ==
    IF r.skip THEN r
    ELSE IF ~isinstance(elem, "TechnicalTerm") THEN Fail(r.w, "AssertionError")
    ELSE do_add_content(r, "TT", elem.attrs.text, collect_technical_term_attributes(elem),
                        inline)

\* Writer._write_superscript(elem, inline)
write_superscript(r, elem, inline) ==
    IF r.skip THEN r
    ELSE IF ~isinstance(elem, "Superscript") THEN Fail(r.w, "AssertionError")
    ELSE do_add_content(r, "SUP", elem.attrs.text, <<>>, inline)

\* Writer._write_subscript(elem, inline)
write_subscript(r, elem, inline) ==
    IF r.skip THEN r
    ELSE IF ~isinstance(elem, "Subscript") THEN Fail(r.w, "AssertionError")
    ELSE do_add_content(r, "SUB", elem.attrs.text, <<>>, inline)

\* The body of `for part in elem.parts:` in the writers of L-4, L-2 and
\* L-1: the chain of isinstance tests.  The chain of L-4 has no test for
\* Break (with_break is FALSE there).
write_part(r, part, with_break) ==
    IF r.skip THEN r
    ELSE IF part.tag = "str" THEN do_add_inline_text(r, Text(part))
    ELSE IF with_break /\ isinstance(part, "Break") THEN write_break(r, part, TRUE)
    ELSE IF isinstance(part, "EmphasisText") THEN write_emphasis_text(r, part, TRUE)
    ELSE IF isinstance(part, "IndexEntry") THEN write_index_entry(r, part, TRUE)
    ELSE IF isinstance(part, "Subscript") THEN write_subscript(r, part, TRUE)
    ELSE IF isinstance(part, "Superscript") THEN write_superscript(r, part, TRUE)
    ELSE IF isinstance(part, "TechnicalTerm") THEN write_technical_term(r, part, TRUE)
    ELSE Fail(r.w, "TypeError")

RECURSIVE write_parts(_, _, _)
write_parts(r, parts, with_break) ==
    IF r.skip \/ Len(parts) = 0 THEN r
    ELSE write_parts(write_part(r, Head(parts), with_break), Tail(parts), with_break)

\* Writer._collect_language_specific_attr(elem, attr)
collect_language_specific_attr(elem) == << <<"L", enum_to_xml(elem.attrs.language)>> >>

\* Writer._write_language_long_name(elem): one L-4 line
write_language_long_name(r, elem) ==
    IF r.skip THEN r
    ELSE IF ~isinstance(elem, "LanguageLongName") THEN Fail(r.w, "AssertionError")
    ELSE do_end_line(
             write_parts(do_begin_line(r, "L-4", collect_language_specific_attr(elem)),
                         elem.attrs.parts.items, FALSE),
             "L-4")

\* Writer._write_language_overview_paragraph(elem): one L-2 line
write_language_overview_paragraph(r, elem) ==
    IF r.skip THEN r
    ELSE IF ~isinstance(elem, "LanguageOverviewParagraph") THEN Fail(r.w, "AssertionError")
    ELSE do_end_line(
             write_parts(do_begin_line(r, "L-2", collect_language_specific_attr(elem)),
                         elem.attrs.parts.items, TRUE),
             "L-2")

\* Writer._write_language_paragraph(elem): one L-1 line
write_language_paragraph(r, elem) ==
    IF r.skip THEN r
    ELSE IF ~isinstance(elem, "LanguageParagraph") THEN Fail(r.w, "AssertionError")
    ELSE do_end_line(
             write_parts(do_begin_line(r, "L-1", collect_language_specific_attr(elem)),
                         elem.attrs.parts.items, TRUE),
             "L-1")

RECURSIVE write_language_overview_paragraphs(_, _)
write_language_overview_paragraphs(r, elements) ==
    IF r.skip \/ Len(elements) = 0 THEN r
    ELSE write_language_overview_paragraphs(
             write_language_overview_paragraph(r, Head(elements)), Tail(elements))

\* Writer._write_multi_language_overview_paragraph(elem, tag)
write_multi_language_overview_paragraph(r, elem, tag) ==
    IF r.skip THEN r
    ELSE IF ~isinstance(elem, "MultiLanguageOverviewParagraph")
         THEN Fail(r.w, "AssertionError")
    ELSE IF tag \notin {"DESC", "ITEM-LABEL", "CHANGE", "REASON"} THEN Fail(r.w, "ValueError")
    ELSE do_leave_child(
             write_language_overview_paragraphs(do_add_child(r, tag, <<>>),
                                                elem.attrs.elements.items))

\* Writer._write_limit(tag, limit, limit_type)
write_limit(r, tag, limit, limit_type) ==
    IF r.skip THEN r
    ELSE IF limit = NoValue \/ limit_type = NoValue THEN Fail(r.w, "AssertionError")
    ELSE IF limit.tag = "int"
         THEN do_add_content(r, tag, str(limit),
                             << <<"INTERVAL-TYPE", enum_to_xml(limit_type)>> >>, FALSE)
    ELSE Fail(r.w, "TypeError")

\* The value of a CompuConst: VT for a str, V for an int
write_compu_const_value(r, value) ==
    IF r.skip THEN r
    ELSE IF value.tag = "str" THEN do_add_content(r, "VT", value, <<>>, FALSE)
    ELSE IF value.tag = "int" THEN do_add_content(r, "V", value, <<>>, FALSE)
    ELSE Fail(r.w, "TypeError")

\* Writer._write_compu_const(elem, tag): an int value is handed to
\* _add_content as it is.
write_compu_const(r, elem, tag) ==
    IF r.skip THEN r
    ELSE IF ~isinstance(elem, "CompuConst") THEN Fail(r.w, "AssertionError")
    ELSE do_leave_child(write_compu_const_value(do_add_child(r, tag, <<>>), elem.attrs.value))

\* _add_content(tag, content) of a number that was formatted: the
\* formatting raises before anything is written
add_formatted(r, tag, content) ==
    IF r.skip THEN r
    ELSE IF content.raised # "none" THEN Fail(r.w, content.raised)
    ELSE do_add_content(r, tag, content.value, <<>>, FALSE)

\* One value of a numerator or denominator: _format_float for a float,
\* str for anything else, handed to _add_content
write_value(r, value) ==
    IF value.tag = "float" THEN add_formatted(r, "V", format_float(value))
    ELSE do_add_content(r, "V", str(value), <<>>, FALSE)

\* Writer._write_numerator_denominator_values(value)
RECURSIVE write_values(_, _)
write_values(r, items) ==
    IF r.skip \/ Len(items) = 0 THEN r
    ELSE write_values(write_value(r, Head(items)), Tail(items))

write_numerator_denominator_values(r, value) ==
    IF value.tag = "tuple" THEN write_values(r, value.items)
    ELSE write_value(r, value)

\* The numerator or the denominator of a CompuRational, when it is set
write_coefficients(r, tag, value) ==
    IF r.skip \/ value = NoValue THEN r
    ELSE do_leave_child(write_numerator_denominator_values(do_add_child(r, tag, <<>>), value))

\* Writer._write_compu_rational(elem)
write_compu_rational(r, elem) ==
    IF r.skip THEN r
    ELSE IF ~isinstance(elem, "CompuRational") THEN Fail(r.w, "AssertionError")
    ELSE IF is_empty(elem)
         THEN do_add_content(r, "COMPU-RATIONAL-COEFFS", StrValue(<<>>), <<>>, FALSE)
    ELSE do_leave_child(
             write_coefficients(
                 write_coefficients(do_add_child(r, "COMPU-RATIONAL-COEFFS", <<>>),
                                    "COMPU-NUMERATOR", elem.attrs.numerator),
                 "COMPU-DENOMINATOR", elem.attrs.denominator))

\* The content of a CompuScale, when it is set: a CompuConst or a
\* CompuRational
write_compu_scale_content(r, content) ==
    IF r.skip \/ content = NoValue THEN r
    ELSE IF isinstance(content, "CompuConst") THEN write_compu_const(r, content, "COMPU-CONST")
    ELSE IF isinstance(content, "CompuRational") THEN write_compu_rational(r, content)
    ELSE r

\* Writer._write_compu_scale(elem): int(elem.mask) is handed to
\* _add_content as it is.
write_compu_scale(r, elem) ==
    IF r.skip THEN r
    ELSE IF ~isinstance(elem, "CompuScale") THEN Fail(r.w, "AssertionError")
    ELSE IF is_empty(elem) THEN do_add_content(r, "COMPU-SCALE", StrValue(<<>>), <<>>, FALSE)
    ELSE LET a == elem.attrs
         IN  do_leave_child(write_compu_scale_content(
             EndWhen(write_compu_const(When(a.inverse_value # NoValue,
                 EndWhen(write_limit(When(a.upper_limit # NoValue,
                     EndWhen(write_limit(When(a.lower_limit # NoValue,
                         EndWhen(do_add_content(When(a.mask # NoValue,
                             EndWhen(write_multi_language_overview_paragraph(When(a.desc # NoValue,
                                 EndWhen(do_add_content(When(a.symbol # NoValue,
                                     EndWhen(do_add_content(When(a.label # NoValue,
                                         do_add_child(r, "COMPU-SCALE", <<>>)
                                         ), "SHORT-LABEL", str(a.label), <<>>, FALSE))
                                     ), "SYMBOL", str(a.symbol), <<>>, FALSE))
                                 ), a.desc, "DESC"))
                             ), "MASK", a.mask, <<>>, FALSE))
                         ), "LOWER-LIMIT", a.lower_limit, a.lower_limit_type))
                     ), "UPPER-LIMIT", a.upper_limit, a.upper_limit_type))
                 ), a.inverse_value, "COMPU-INVERSE-VALUE")),
             a.content))

RECURSIVE write_compu_scales(_, _)
write_compu_scales(r, items) ==
    IF r.skip \/ Len(items) = 0 THEN r
    ELSE write_compu_scales(write_compu_scale(r, Head(items)), Tail(items))

\* Writer._write_computation(elem, tag)
write_computation(r, elem, tag) ==
    IF r.skip THEN r
    ELSE LET a == elem.attrs
         IN  do_leave_child(EndWhen(write_compu_const(When(a.default_value # NoValue,
                 EndWhen(do_leave_child(write_compu_scales(do_add_child(
                     When(a.compu_scales # NoValue, do_add_child(r, tag, <<>>)),
                     "COMPU-SCALES", <<>>), a.compu_scales.items)))
                 ), a.default_value, "COMPU-DEFAULT-VALUE")))

\* Writer._write_scale_constraint(elem)
write_scale_constraint(r, elem) ==
    IF r.skip THEN r
    ELSE IF ~isinstance(elem, "ScaleConstraint") THEN Fail(r.w, "AssertionError")
    ELSE LET a == elem.attrs
             attr == IF a.validity # NoValue THEN << <<"VALIDITY", enum_to_xml(a.validity)>> >>
                     ELSE <<>>
         IN  IF is_empty(elem) THEN do_add_content(r, "SCALE-CONSTR", StrValue(<<>>), attr, FALSE)
             ELSE do_leave_child(EndWhen(write_limit(When(a.upper_limit # NoValue,
                      EndWhen(write_limit(When(a.lower_limit # NoValue,
                          EndWhen(write_multi_language_overview_paragraph(When(a.desc # NoValue,
                              EndWhen(do_add_content(When(a.label # NoValue,
                                  do_add_child(r, "SCALE-CONSTR", attr)
                                  ), "SHORT-LABEL", a.label, <<>>, FALSE))
                              ), a.desc, "DESC"))
                          ), "LOWER-LIMIT", a.lower_limit, a.lower_limit_type))
                      ), "UPPER-LIMIT", a.upper_limit, a.upper_limit_type)))

\* Writer.switcher_value_specification: the classes registered
switcher_value_specification ==
    {"TextValueSpecification", "NumericalValueSpecification",
     "NotAvailableValueSpecification", "ArrayValueSpecification",
     "RecordValueSpecification", "ApplicationValueSpecification", "ConstantReference"}

\* _XMLWriter._format_number(number): str for an int, _format_float for a
\* float
format_number(number) ==
    IF number.tag \in {"int", "bool"} THEN New(str(number))
    ELSE IF number.tag = "float" THEN format_float(number)
    ELSE NewRaise("TypeError")

\* Writer._write_value_specification_group(elem)
write_value_specification_group(r, elem) ==
    EndWhen(do_add_content(When(elem.attrs.label # NoValue, r),
                           "SHORT-LABEL", str(elem.attrs.label), <<>>, FALSE))

\* Writer._write_text_value_specification(elem)
write_text_value_specification(r, elem) ==
    IF r.skip THEN r
    ELSE IF ~isinstance(elem, "TextValueSpecification") THEN Fail(r.w, "AssertionError")
    ELSE IF is_empty(elem)
         THEN do_add_content(r, "TEXT-VALUE-SPECIFICATION", StrValue(<<>>), <<>>, FALSE)
    ELSE do_leave_child(EndWhen(do_add_content(When(elem.attrs.value # NoValue,
             write_value_specification_group(
                 do_add_child(r, "TEXT-VALUE-SPECIFICATION", <<>>), elem)
             ), "VALUE", str(elem.attrs.value), <<>>, FALSE)))

\* Writer._write_numerical_value_specification(elem)
write_numerical_value_specification(r, elem) ==
    IF r.skip THEN r
    ELSE IF ~isinstance(elem, "NumericalValueSpecification") THEN Fail(r.w, "AssertionError")
    ELSE IF is_empty(elem)
         THEN do_add_content(r, "NUMERICAL-VALUE-SPECIFICATION", StrValue(<<>>), <<>>, FALSE)
    ELSE do_leave_child(EndWhen(add_formatted(When(elem.attrs.value # NoValue,
             write_value_specification_group(
                 do_add_child(r, "NUMERICAL-VALUE-SPECIFICATION", <<>>), elem)
             ), "VALUE", format_number(elem.attrs.value))))

\* Writer._write_not_available_value_specification(elem)
write_not_available_value_specification(r, elem) ==
    IF r.skip THEN r
    ELSE IF ~isinstance(elem, "NotAvailableValueSpecification")
         THEN Fail(r.w, "AssertionError")
    ELSE IF is_empty_with_ignore(elem, {"default_pattern_format"})
         THEN do_add_content(r, "NOT-AVAILABLE-VALUE-SPECIFICATION", StrValue(<<>>), <<>>,
                             FALSE)
    ELSE do_leave_child(EndWhen(do_add_content(When(elem.attrs.default_pattern # NoValue,
             write_value_specification_group(
                 do_add_child(r, "NOT-AVAILABLE-VALUE-SPECIFICATION", <<>>), elem)
             ), "DEFAULT-PATTERN", str(elem.attrs.default_pattern), <<>>, FALSE)))

RECURSIVE write_value_specification_element(_, _)
RECURSIVE write_value_specification_elements(_, _)

\* The loop over elem.elements / elem.fields
write_value_specification_elements(r, items) ==
    IF r.skip \/ Len(items) = 0 THEN r
    ELSE write_value_specification_elements(
             write_value_specification_element(r, Head(items)), Tail(items))

\* Writer._write_array_value_specification_group(elem)
write_array_value_specification_group(r, elem) ==
    IF r.skip \/ ~truthy(elem.attrs.elements) THEN r
    ELSE do_leave_child(
             write_value_specification_elements(do_add_child(r, "ELEMENTS", <<>>),
                                                elem.attrs.elements.items))

\* Writer._write_array_value_specification(elem)
write_array_value_specification(r, elem) ==
    IF r.skip THEN r
    ELSE IF ~isinstance(elem, "ArrayValueSpecification") THEN Fail(r.w, "AssertionError")
    ELSE IF is_empty(elem)
         THEN do_add_content(r, "ARRAY-VALUE-SPECIFICATION", StrValue(<<>>), <<>>, FALSE)
    ELSE do_leave_child(
             write_array_value_specification_group(
                 write_value_specification_group(
                     do_add_child(r, "ARRAY-VALUE-SPECIFICATION", <<>>), elem),
                 elem))

\* Writer._write_record_value_specification_group(elem)
write_record_value_specification_group(r, elem) ==
    IF r.skip \/ ~truthy(elem.attrs.fields) THEN r
    ELSE do_leave_child(
             write_value_specification_elements(do_add_child(r, "FIELDS", <<>>),
                                                elem.attrs.fields.items))

\* Writer._write_record_value_specification(elem)
write_record_value_specification(r, elem) ==
    IF r.skip THEN r
    ELSE IF ~isinstance(elem, "RecordValueSpecification") THEN Fail(r.w, "AssertionError")
    ELSE IF is_empty(elem)
         THEN do_add_content(r, "RECORD-VALUE-SPECIFICATION", StrValue(<<>>), <<>>, FALSE)
    ELSE do_leave_child(
             write_record_value_specification_group(
                 write_value_specification_group(
                     do_add_child(r, "RECORD-VALUE-SPECIFICATION", <<>>), elem),
                 elem))

\* Writer._write_value_specification_element(elem): the value
\* specifications of this model are of the first five classes.
write_value_specification_element(r, elem) ==
    IF r.skip THEN r
    ELSE IF elem.cls \notin switcher_value_specification THEN Fail(r.w, "NotImplementedError")
    ELSE CASE elem.cls = "TextValueSpecification" -> write_text_value_specification(r, elem)
           [] elem.cls = "NumericalValueSpecification"
                 -> write_numerical_value_specification(r, elem)
           [] elem.cls = "NotAvailableValueSpecification"
                 -> write_not_available_value_specification(r, elem)
           [] elem.cls = "ArrayValueSpecification" -> write_array_value_specification(r, elem)
           [] elem.cls = "RecordValueSpecification" -> write_record_value_specification(r, elem)

\* The classes of Writer.switcher_all that this model writes, each with
\* TRUE when its writer function takes a tag argument.
switcher_all ==
    [Computation |-> TRUE, CompuRational |-> FALSE, CompuScale |-> FALSE,
     ScaleConstraint |-> FALSE, MultiLanguageOverviewParagraph |-> TRUE,
     LanguageLongName |-> FALSE, LanguageParagraph |-> FALSE,
     TextValueSpecification |-> FALSE, NumericalValueSpecification |-> FALSE,
     NotAvailableValueSpecification |-> FALSE, ArrayValueSpecification |-> FALSE,
     RecordValueSpecification |-> FALSE]

\* tag=None
NoTag == "<None>"

\* The writer function registered for the class
write_method(r, elem, tag) ==
    CASE elem.cls = "Computation" -> write_computation(r, elem, tag)
      [] elem.cls = "CompuRational" -> write_compu_rational(r, elem)
      [] elem.cls = "CompuScale" -> write_compu_scale(r, elem)
      [] elem.cls = "ScaleConstraint" -> write_scale_constraint(r, elem)
      [] elem.cls = "MultiLanguageOverviewParagraph"
            -> write_multi_language_overview_paragraph(r, elem, tag)
      [] elem.cls = "LanguageLongName" -> write_language_long_name(r, elem)
      [] elem.cls = "LanguageParagraph" -> write_language_paragraph(r, elem)
      [] elem.cls \in switcher_value_specification
            -> write_value_specification_element(r, elem)

\* Writer.write_str_elem(elem, tag): a writer function called with a tag
\* it has no parameter for, or without the tag it needs, is a TypeError.
write_str_elem(w, elem, tag) ==
    LET w1 == str_open(w)
    IN  IF elem.cls \notin DOMAIN switcher_all THEN Fail(w1, "NotImplementedError")
        ELSE IF switcher_all[elem.cls] # (tag # NoTag) THEN Fail(w1, "TypeError")
        ELSE write_method(Ok(w1), elem, tag)

\* fh.getvalue()
getvalue(w) == [tag |-> "text", lines |-> w.fh.lines]

\* The tag arguments given to write_str_elem
Tags == {NoTag, "COMPU-INTERNAL-TO-PHYS", "DESC"}

\* A call of a writer method that ended as `r`: the writer is left as the
\* call left it, and the call returned the text of fh when `text` is set
\* and nothing was raised.
Writer_call(op, self, item, arg, r, text) ==
    /\ writer' = r.w
    /\ last' = Call(op, self, item, arg, r.raised,
                    IF text /\ r.raised = "none" THEN getvalue(r.w) ELSE NoValue)
    /\ UNCHANGED heap

\* writer.write_str_elem(elem, tag)
Writer_write_str_elem(self, tag) ==
    Writer_call("write_str_elem", self, None, tag,
                write_str_elem(writer, heap[self], tag), TRUE)

\* One object constructed by application code, and a new Writer.
WriterInit ==
    /\ heap \in {<<elem>> : elem \in ModelObjects}
    /\ last = Call("init", None, None, <<>>, "none", NoValue)
    /\ writer = NewWriter

WriterNext ==
    \E self \in 1..Len(heap), tag \in Tags : Writer_write_str_elem(self, tag)

WriterSpec == WriterInit /\ [][WriterNext]_vars

\* C10: an object of a registered class whose attributes are all None or
\* empty, given to its writer function, is written as one line holding one
\* self-closing tag: no opening tag, no child, no closing-tag line.
C10_EmptyObjectIsOneSelfClosingTag ==
    LET elem == heap[last.self]
    IN  (/\ last.op = "write_str_elem"
         /\ elem.cls \in DOMAIN switcher_all
         /\ switcher_all[elem.cls] = (last.ref # NoTag)
         /\ \A key \in DOMAIN elem.attrs : NoneOrEmptySequence(elem.attrs[key]))
            => /\ last.raised = "none"
               /\ Len(last.value.lines) = 1
               /\ Len(last.value.lines[1]) = 2
               /\ last.value.lines[1][1] = Indentation(0)
               /\ last.value.lines[1][2].kind = "empty"

---------------------------------------------------------------------------
(* ValueSpecification.make_value *)

\* str.upper(), on the letters the model's strings are made of
upper_char(c) ==
    CASE c = "a" -> "A" [] c = "r" -> "R" [] c = "y" -> "Y" [] c = "e" -> "E"
      [] c = "c" -> "C" [] c = "o" -> "O" [] c = "d" -> "D" [] c = "x" -> "X"
      [] OTHER -> c
upper(s) == [i \in 1..Len(s) |-> upper_char(s[i])]

\* ValueSpecification and its subclasses
ValueSpecificationClasses ==
    {"ValueSpecification", "TextValueSpecification", "NumericalValueSpecification",
     "NotAvailableValueSpecification", "ArrayValueSpecification",
     "RecordValueSpecification", "ApplicationValueSpecification", "ConstantReference"}

\* isinstance(value, ValueSpecification)
isinstance_ValueSpecification(value) ==
    value.tag = "instance" /\ value.cls \in ValueSpecificationClasses

\* NumericalValueSpecification.__init__(label, value)
NumericalValueSpecification_init(label, value) ==
    New(Instance("NumericalValueSpecification", [label |-> label, value |-> value]))

\* TextValueSpecification.__init__(label, value): str(value) unless None
TextValueSpecification_init(label, value) ==
    New(Instance("TextValueSpecification",
                 [label |-> label, value |-> IF value = NoValue THEN NoValue ELSE str(value)]))

\* NotAvailableValueSpecification.__init__(label, default_pattern)
NotAvailableValueSpecification_init(label, default_pattern) ==
    IF default_pattern.tag = "int" /\ default_pattern.n < 0 THEN NewRaise("ValueError")
    ELSE New(Instance("NotAvailableValueSpecification",
                      [label |-> label, default_pattern |-> default_pattern,
                       default_pattern_format |-> EnumValue("DEFAULT")]))

\* ArrayValueSpecification.__init__(label, elements), elements a list:
\* append type-checks each item.
ArrayValueSpecification_init(label, elements) ==
    IF \E i \in 1..Len(elements.items) : ~isinstance_ValueSpecification(elements.items[i])
    THEN NewRaise("TypeError")
    ELSE New(Instance("ArrayValueSpecification", [label |-> label, elements |-> elements]))

\* RecordValueSpecification.__init__(label, fields), fields a list
RecordValueSpecification_init(label, fields) ==
    IF \E i \in 1..Len(fields.items) : ~isinstance_ValueSpecification(fields.items[i])
    THEN NewRaise("TypeError")
    ELSE New(Instance("RecordValueSpecification", [label |-> label, fields |-> fields]))

RECURSIVE make_value(_)
RECURSIVE make_values(_)
RECURSIVE make_from_args(_, _, _)

\* The loop of _make_array_value_spefication / _make_record_value_spefication:
\* make_value on each item in turn, the first exception ending it.
make_values(values) ==
    IF Len(values) = 0 THEN New(ListValue(<<>>))
    ELSE LET first == make_value(Head(values))
         IN  IF first.raised # "none" THEN first
             ELSE LET rest == make_values(Tail(values))
                  IN  IF rest.raised # "none" THEN rest
                      ELSE New(ListValue(<<first.value>> \o rest.value.items))

\* _make_array_value_spefication as it would be if the first child were
\* put behind the others.
make_array_first_child_last(label, values) ==
    LET elements == make_values(values)
    IN  IF elements.raised # "none" THEN elements
        ELSE IF Len(values) = 0 THEN ArrayValueSpecification_init(label, elements.value)
        ELSE ArrayValueSpecification_init(label,
                 ListValue(Append(Tail(elements.value.items), Head(elements.value.items))))

\* ValueSpecification._make_array_value_spefication(label, values)
make_array_value_spefication(label, values) ==
    LET elements == make_values(values)
    IN  IF elements.raised # "none" THEN elements
        ELSE ArrayValueSpecification_init(label, elements.value)

\* ValueSpecification._make_record_value_spefication(label, values)
make_record_value_spefication(label, values) ==
    LET fields == make_values(values)
    IN  IF fields.raised # "none" THEN fields
        ELSE RecordValueSpecification_init(label, fields.value)

\* ValueSpecification._make_from_args(label, value, default_pattern): a
\* bool is an int, and value[0] of an empty list is an IndexError.
make_from_args(label, value, default_pattern) ==
    IF value.tag \in {"int", "float", "bool"} THEN NumericalValueSpecification_init(label, value)
    ELSE IF value.tag = "str" THEN TextValueSpecification_init(label, value)
    ELSE IF value = NoValue THEN NotAvailableValueSpecification_init(label, default_pattern)
    ELSE IF value.tag = "list" THEN
        IF Len(value.items) = 0 THEN NewRaise("IndexError")
        ELSE IF value.items[1].tag # "str" THEN NewRaise("TypeError")
        ELSE IF upper(value.items[1].str) \in {<<"A">>, <<"A", "R", "R", "A", "Y">>}
             THEN make_array_value_spefication(label, Tail(value.items))
        ELSE IF upper(value.items[1].str) \in {<<"R">>, <<"R", "E", "C", "O", "R", "D">>}
             THEN make_record_value_spefication(label, Tail(value.items))
        ELSE NewRaise("ValueError")
    ELSE NewRaise("TypeError")

\* ValueSpecification.make_value(data): data[0] of an empty tuple is an
\* IndexError.
make_value(data) ==
    IF data.tag = "tuple" THEN
        IF Len(data.items) = 0 THEN NewRaise("IndexError")
        ELSE IF data.items[1].tag # "str" THEN NewRaise("TypeError")
        ELSE IF Len(data.items) = 2 THEN make_from_args(data.items[1], data.items[2], NoValue)
        ELSE IF Len(data.items) = 3
             THEN make_from_args(data.items[1], data.items[2], data.items[3])
        ELSE NewRaise("ValueError")
    ELSE make_from_args(NoValue, data, NoValue)

\* The longest list of children the inputs hold
MaxItems == 2

\* Inputs of make_value: scalars, labelled tuples, and lists of them.
Scalars == {IntValue(0), IntValue(5), FloatValue(25, 0 - 1), StrValue(<<"x">>), NoValue}
Patterns == {NoValue, IntValue(0), IntValue(0 - 1)}
Heads ==
    {StrValue(s) : s \in {<<"a">>, <<"A">>, <<"a", "r", "r", "a", "y">>,
                          <<"A", "r", "r", "A", "Y">>, <<"r">>,
                          <<"R", "E", "C", "O", "R", "D">>,
                          <<"r", "e", "c", "o", "r", "d">>, <<"x">>}}
LabelledTuples ==
    {TupleValue(<<StrValue(<<"a">>), v>>) : v \in Scalars}
    \cup {TupleValue(<<StrValue(<<"b">>), v, p>>) : v \in {IntValue(5), NoValue}, p \in Patterns}
ItemLists(items) ==
    UNION {[1..n -> items] : n \in 0..MaxItems}
ListsOf(items) ==
    {ListValue(<<h>> \o rest) : h \in Heads, rest \in ItemLists(items)}
InnerLists ==
    {ListValue(<<StrValue(<<"a">>), IntValue(0), IntValue(5)>>),
     ListValue(<<StrValue(<<"r">>), TupleValue(<<StrValue(<<"a">>), IntValue(5)>>)>>),
     ListValue(<<>>)}
ValueData ==
    Scalars \cup LabelledTuples
    \cup ListsOf({IntValue(0), IntValue(5), StrValue(<<"x">>), NoValue,
                  TupleValue(<<StrValue(<<"a">>), IntValue(5)>>)} \cup InnerLists)
    \cup {TupleValue(<<StrValue(<<"a">>), l>>) : l \in InnerLists}
    \cup {TupleValue(<<>>), TupleValue(<<StrValue(<<"a">>)>>),
          TupleValue(<<IntValue(5), IntValue(5)>>),
          TupleValue(<<StrValue(<<"a">>), IntValue(5), NoValue, NoValue>>),
          TupleValue(<<StrValue(<<"a">>), TupleValue(<<StrValue(<<"b">>), IntValue(5)>>)>>),
          ListValue(<<IntValue(5), IntValue(5)>>), BoolValue(TRUE) }

\* ValueSpecification.make_value(data)
Call_make_value(self) ==
    /\ LET made == make_value(heap[self])
       IN  last' = Call("make_value", self, None, <<>>, made.raised, made.value)
    /\ UNCHANGED <<heap, writer>>

\* One input of make_value written by application code.
ValueInit ==
    /\ heap \in {<<data>> : data \in ValueData}
    /\ last = Call("init", None, None, <<>>, "none", NoValue)
    /\ writer = NewWriter

ValueNext == \E self \in 1..Len(heap) : Call_make_value(self)

ValueSpec == ValueInit /\ [][ValueNext]_vars

\* The items after the first one name an array or a record
IsArrayHead(v) == v.tag = "str" /\ upper(v.str) \in {<<"A">>, <<"A", "R", "R", "A", "Y">>}
IsRecordHead(v) == v.tag = "str" /\ upper(v.str) \in {<<"R">>, <<"R", "E", "C", "O", "R", "D">>}

\* The children of an array or record node
Children(node) ==
    IF node.cls = "ArrayValueSpecification" THEN node.attrs.elements.items
    ELSE node.attrs.fields.items

\* node is what the shape of value asks for, leaving the label aside
NodeFor(value, node) ==
    IF value.tag \in {"int", "float"}
    THEN node.cls = "NumericalValueSpecification" /\ node.attrs.value = value
    ELSE IF value.tag = "str" THEN node.cls = "TextValueSpecification" /\ node.attrs.value = value
    ELSE IF value = NoValue THEN node.cls = "NotAvailableValueSpecification"
    ELSE /\ node.cls = IF IsArrayHead(value.items[1]) THEN "ArrayValueSpecification"
                       ELSE "RecordValueSpecification"
         /\ Len(Children(node)) = Len(value.items) - 1
         /\ \A i \in 1..Len(Children(node)) :
               Children(node)[i] = make_value(value.items[i + 1]).value

\* A value whose shape the variants cover, with children that can be built
Shaped(value) ==
    \/ value.tag \in {"int", "float", "str"}
    \/ value = NoValue
    \/ /\ value.tag = "list"
       /\ Len(value.items) > 0
       /\ IsArrayHead(value.items[1]) \/ IsRecordHead(value.items[1])
       /\ \A i \in 2..Len(value.items) : make_value(value.items[i]).raised = "none"

\* A (label, value) or (label, value, default_pattern) tuple with a
\* default pattern NotAvailableValueSpecification accepts
Labelled(data) ==
    /\ data.tag = "tuple"
    /\ Len(data.items) \in {2, 3}
    /\ data.items[1].tag = "str"
    /\ Shaped(data.items[2])
    /\ Len(data.items) = 3 =>
          ~(data.items[3].tag = "int" /\ data.items[3].n < 0 /\ data.items[2] = NoValue)

\* C11: make_value on an int or float returns a NumericalValueSpecification
\* holding that value, on a string a TextValueSpecification, on None a
\* NotAvailableValueSpecification, on a list headed by "A"/"ARRAY" or
\* "R"/"RECORD" in any case an array or record node whose children are
\* make_value of the remaining items, as many and in the same order; on a
\* (label, value) or (label, value, default_pattern) tuple it returns the
\* node for value with that label.
C11_MakeValueInfersVariant ==
    last.op = "make_value" =>
        LET data == heap[last.self]
        IN  /\ Shaped(data) =>
                /\ last.raised = "none"
                /\ NodeFor(data, last.value)
                /\ last.value.attrs.label = NoValue
            /\ Labelled(data) =>
                /\ last.raised = "none"
                /\ NodeFor(data.items[2], last.value)
                /\ last.value.attrs.label = data.items[1]

\* make_value(["array", 0, 5]) has returned an array of two numeric
\* children, and make_value(("a", 5)) a labelled numeric node.
C11_Witness ==
    /\ last.op = "make_value"
    /\ last.raised = "none"
    /\ heap[last.self] = ListValue(<<StrValue(<<"a", "r", "r", "a", "y">>), IntValue(0), IntValue(5)>>)
    /\ last.value.cls = "ArrayValueSpecification"
    /\ Len(last.value.attrs.elements.items) = 2
    /\ last.value.attrs.elements.items[1].attrs.value = IntValue(0)
    /\ last.value.attrs.elements.items[2].attrs.value = IntValue(5)

---------------------------------------------------------------------------
(* _XMLWriter._format_float *)

\* The floats given to the formatter: coef * 10^exp, the infinities, NaN
FloatCoefs == {1, 2, 25, 0 - 3, 12345}
FloatExps == {0 - 10, 0 - 7, 0 - 2, 0 - 1, 0, 1, 15, 16, 22, 27, 28, 30}
Floats ==
    {FloatValue(c, e) : c \in FloatCoefs, e \in FloatExps}
    \cup {FloatValue(0, 0), FloatInf, FloatNegInf, FloatNaN}

\* writer._format_float(value)
Call_format_float(self) ==
    /\ LET made == format_float(heap[self])
       IN  last' = Call("format_float", self, None, <<>>, made.raised, made.value)
    /\ UNCHANGED <<heap, writer>>

\* One float held by application code.
FloatInit ==
    /\ heap \in {<<f>> : f \in Floats}
    /\ last = Call("init", None, None, <<>>, "none", NoValue)
    /\ writer = NewWriter

FloatNext == \E self \in 1..Len(heap) : Call_format_float(self)

FloatSpec == FloatInit /\ [][FloatNext]_vars

\* The text is an optional sign and digits, nothing else
OnlyDigits(text) ==
    LET body == IF Len(text) > 0 /\ text[1] = "-" THEN Tail(text) ELSE text
    IN  Len(body) > 0 /\ \A i \in 1..Len(body) : \E d \in 0..9 : body[i] = Digit(d)

\* The number a float stands for, as a normalized Decimal
FloatAsDecimal(f) ==
    Decimal_normalize(Decimal(f.coef < 0, str_nat(IF f.coef < 0 THEN 0 - f.coef ELSE f.coef), f.exp))

\* C16: for every float the formatter returns without raising: the digits
\* alone for an integral float, a decimal text that parses back to the
\* same value for a non-integral one, "INF", "-INF" and "NaN" for the
\* infinities and NaN.
C16_FormatFloatTotal ==
    last.op = "format_float" =>
        LET f == heap[last.self]
            text == str(last.value).str
        IN  /\ last.raised = "none"
            /\ f.kind = "inf" => text = <<"I", "N", "F">>
            /\ f.kind = "-inf" => text = <<"-", "I", "N", "F">>
            /\ f.kind = "nan" => text = <<"N", "a", "N">>
            /\ (f.kind = "finite" /\ (f.exp >= 0 \/ f.coef = 0)) => OnlyDigits(text)
            /\ (f.kind = "finite" /\ f.exp < 0 /\ f.coef # 0) =>
                  Decimal_normalize(Decimal_from_str(text)) = FloatAsDecimal(f)

---------------------------------------------------------------------------
(* Writer: documents, packages and the elements in them *)

\* Identifiable.__init__: the attributes of an element constructed with a
\* name alone
IdentifiableAttrs ==
    [long_name |-> NoValue, desc |-> NoValue, category |-> NoValue, admin_data |-> NoValue,
     introduction |-> NoValue, annotations |-> NoValue, uuid |-> NoValue]

\* An ARElement with attributes of its own besides the name
NewElement(cls, name, attrs) ==
    [cls |-> cls, name |-> name, parent |-> None,
     elements |-> <<>>, packages |-> <<>>, collection_map |-> <<>>,
     sub_elements |-> <<>>, attrs |-> IdentifiableAttrs @@ attrs]

\* getattr(elem, key): a tree node of the model carries in attrs what it
\* was constructed with, and None for the rest
getattr(elem, key) ==
    IF "attrs" \in DOMAIN elem /\ key \in DOMAIN elem.attrs THEN elem.attrs[key] ELSE NoValue

\* float(n) of an int: the digits without trailing zeros, and the exponent
RECURSIVE float_of_int(_, _)
float_of_int(n, exp) ==
    IF n # 0 /\ n % 10 = 0 THEN float_of_int(n \div 10, exp + 1) ELSE FloatValue(n, exp)
float(value) == IF value.tag = "int" THEN float_of_int(value.n, 0) ELSE value

\* make_rational as it would be with the scaling factor in front of the
\* offset.
make_rational_factor_first(scaling_factor, offset) ==
    LET numerator == ListValue(<<float(scaling_factor), offset>>)
        denominator == ListValue(<<IntValue(1)>>)
        rational == CompuRational_init(numerator, denominator).value
        scale == CompuScale_init([content |-> rational, lower_limit |-> NoValue,
                                  upper_limit |-> NoValue, label |-> NoValue,
                                  symbol |-> NoValue, desc |-> NoValue, mask |-> NoValue,
                                  inverse_value |-> NoValue,
                                  lower_limit_type |-> EnumValue("CLOSED"),
                                  upper_limit_type |-> EnumValue("CLOSED")]).value
    IN  Computation_init(ListValue(<<scale>>), NoValue).value

\* Computation.make_rational(scaling_factor, offset): one scale holding
\* the numerator [offset, float(scaling_factor)] and the denominator [1]
make_rational(scaling_factor, offset) ==
    LET numerator == ListValue(<<offset, float(scaling_factor)>>)
        denominator == ListValue(<<IntValue(1)>>)
        rational == CompuRational_init(numerator, denominator).value
        scale == CompuScale_init([content |-> rational, lower_limit |-> NoValue,
                                  upper_limit |-> NoValue, label |-> NoValue,
                                  symbol |-> NoValue, desc |-> NoValue, mask |-> NoValue,
                                  inverse_value |-> NoValue,
                                  lower_limit_type |-> EnumValue("CLOSED"),
                                  upper_limit_type |-> EnumValue("CLOSED")]).value
    IN  Computation_init(ListValue(<<scale>>), NoValue).value

\* CompuMethod.__init__(name, int_to_phys)
CompuMethod_init(name, int_to_phys) ==
    NewElement("CompuMethod", name,
               [int_to_phys |-> int_to_phys, phys_to_int |-> NoValue,
                unit_ref |-> NoValue, display_format |-> NoValue])

\* ConstantSpecification.__init__(name, value)
ConstantSpecification_init(name, value) ==
    IF value # NoValue /\ ~isinstance_ValueSpecification(value) THEN NewRaise("TypeError")
    ELSE New(NewElement("ConstantSpecification", name, [value |-> value]))

\* Writer.switcher_collectable: the classes registered
switcher_collectable ==
    {"Package", "CompuMethod", "ApplicationArrayDataType", "ApplicationRecordDataType",
     "ApplicationPrimitiveDataType", "SwBaseType", "SwAddrMethod", "ImplementationDataType",
     "DataTypeMappingSet", "DataConstraint", "Unit", "ConstantSpecification"}

\* Writer._collect_identifiable_attributes(elem, attr)
collect_identifiable_attributes(elem) ==
    IF getattr(elem, "uuid") # NoValue THEN << <<"UUID", getattr(elem, "uuid")>> >> ELSE <<>>

\* Writer._write_referrable(elem)
write_referrable(r, elem) ==
    do_add_content(r, "SHORT-NAME", StrValue(elem.name), <<>>, FALSE)

\* Writer._write_multilanguage_referrable(elem): the elements of this model
\* have no long name
write_multilanguage_referrable(r, elem) == r

\* Writer._write_general_annotation(elem): the annotations of this model
\* have no label and no text
write_general_annotation(r, elem) ==
    EndWhen(do_add_content(When(elem.attrs.origin # NoValue, r),
                           "ANNOTATION-ORIGIN", str(elem.attrs.origin), <<>>, FALSE))

\* Writer._write_annotation(elem)
write_annotation(r, elem) ==
    IF r.skip THEN r
    ELSE IF ~isinstance(elem, "Annotation") THEN Fail(r.w, "AssertionError")
    ELSE IF is_empty(elem) THEN do_add_content(r, "ANNOTATION", StrValue(<<>>), <<>>, FALSE)
    ELSE do_leave_child(write_general_annotation(do_add_child(r, "ANNOTATION", <<>>), elem))

\* _write_annotations as it would be with _add_child and _leave_child
\* around the loop.
RECURSIVE write_annotation_each(_, _)
write_annotation_each(r, elements) ==
    IF r.skip \/ Len(elements) = 0 THEN r
    ELSE write_annotation_each(write_annotation(r, Head(elements)), Tail(elements))

write_annotations_around_loop(r, elements) ==
    IF r.skip THEN r
    ELSE IF truthy(elements)
         THEN do_leave_child(write_annotation_each(do_add_child(r, "ANNOTATIONS", <<>>),
                                                   elements.items))
    ELSE do_add_content(r, "ANNOTATIONS", StrValue(<<>>), <<>>, FALSE)

\* The loop of _write_annotations: _add_child(tag), _write_annotation(elem)
\* and _leave_child() for each elem
RECURSIVE write_annotations_loop(_, _)
write_annotations_loop(r, elements) ==
    IF r.skip \/ Len(elements) = 0 THEN r
    ELSE write_annotations_loop(
             do_leave_child(write_annotation(do_add_child(r, "ANNOTATIONS", <<>>),
                                             Head(elements))),
             Tail(elements))

\* Writer._write_annotations(elements)
write_annotations(r, elements) ==
    IF r.skip THEN r
    ELSE IF truthy(elements) THEN write_annotations_loop(r, elements.items)
    ELSE do_add_content(r, "ANNOTATIONS", StrValue(<<>>), <<>>, FALSE)

\* Writer._write_identifiable(elem): the elements of this model have no
\* admin data and no introduction
write_identifiable(r, elem) ==
    EndWhen(write_annotations(When(truthy(getattr(elem, "annotations")),
        EndWhen(do_add_content(When(truthy(getattr(elem, "category")),
            EndWhen(write_multi_language_overview_paragraph(
                When(truthy(getattr(elem, "desc")), r), getattr(elem, "desc"), "DESC"))
            ), "CATEGORY", getattr(elem, "category"), <<>>, FALSE))
        ), getattr(elem, "annotations")))

\* Writer._write_compu_method_group(elem): the CompuMethods of this model
\* have no unit reference
write_compu_method_group(r, elem) ==
    LET a == elem.attrs
    IN  EndWhen(write_computation(When(a.phys_to_int # NoValue,
            EndWhen(write_computation(When(a.int_to_phys # NoValue,
                EndWhen(do_add_content(
                    When(a.display_format # NoValue, r),
                    "DISPLAY-FORMAT", str(a.display_format), <<>>, FALSE))
                ), a.int_to_phys, "COMPU-INTERNAL-TO-PHYS"))
            ), a.phys_to_int, "COMPU-PHYS-TO-INTERNAL"))

\* Writer._write_compu_method(elem)
write_compu_method(r, elem) ==
    IF r.skip THEN r
    ELSE IF elem.cls # "CompuMethod" THEN Fail(r.w, "AssertionError")
    ELSE do_leave_child(
             write_compu_method_group(
                 write_identifiable(
                     write_multilanguage_referrable(
                         write_referrable(
                             do_add_child(r, "COMPU-METHOD",
                                          collect_identifiable_attributes(elem)),
                             elem),
                         elem),
                     elem),
                 elem))

\* Writer._write_constant_specification_group(elem)
write_constant_specification_group(r, elem) ==
    IF r.skip \/ elem.attrs.value = NoValue THEN r
    ELSE do_leave_child(
             write_value_specification_element(do_add_child(r, "VALUE-SPEC", <<>>),
                                               elem.attrs.value))

\* Writer._write_constant_specification(elem)
write_constant_specification(r, elem) ==
    IF r.skip THEN r
    ELSE IF elem.cls # "ConstantSpecification" THEN Fail(r.w, "AssertionError")
    ELSE do_leave_child(
             write_constant_specification_group(
                 write_identifiable(
                     write_multilanguage_referrable(
                         write_referrable(
                             do_add_child(r, "CONSTANT-SPECIFICATION",
                                          collect_identifiable_attributes(elem)),
                             elem),
                         elem),
                     elem),
                 elem))

RECURSIVE write_package(_, _, _)
RECURSIVE write_collectable(_, _, _)
RECURSIVE write_elements(_, _, _)
RECURSIVE write_packages_loop(_, _, _)

\* The writer function switcher_collectable holds for the class of the
\* node: the elements of this model are CompuMethods and
\* ConstantSpecifications.
write_collectable(r, h, id) ==
    CASE h[id].cls = "Package" -> write_package(r, h, id)
      [] h[id].cls = "CompuMethod" -> write_compu_method(r, h[id])
      [] h[id].cls = "ConstantSpecification" -> write_constant_specification(r, h[id])

\* The loop of _write_package_elements: an element of a class without a
\* writer ends the write.
write_elements(r, h, elements) ==
    IF r.skip \/ Len(elements) = 0 THEN r
    ELSE IF h[Head(elements)].cls \in switcher_collectable
         THEN write_elements(write_collectable(r, h, Head(elements)), h, Tail(elements))
    ELSE Fail(r.w, "NotImplementedError")

\* _write_package_elements as it would be if an element of a class without
\* a writer ended the loop and nothing more.
write_package_elements_skipping(r, h, package) ==
    IF \E i \in 1..Len(h[package].elements) :
           h[h[package].elements[i]].cls \notin switcher_collectable
    THEN do_leave_child(do_add_child(r, "ELEMENTS", <<>>))
    ELSE do_leave_child(write_elements(do_add_child(r, "ELEMENTS", <<>>), h,
                                       h[package].elements))

\* Writer._write_package_elements(package)
write_package_elements(r, h, package) ==
    do_leave_child(write_elements(do_add_child(r, "ELEMENTS", <<>>), h, h[package].elements))

\* The loop of _write_packages / _write_sub_packages
write_packages_loop(r, h, packages) ==
    IF r.skip \/ Len(packages) = 0 THEN r
    ELSE write_packages_loop(write_package(r, h, Head(packages)), h, Tail(packages))

\* Writer._write_sub_packages(package)
write_sub_packages(r, h, package) ==
    do_leave_child(write_packages_loop(do_add_child(r, "AR-PACKAGES", <<>>), h,
                                       h[package].packages))

\* Writer._write_package(package)
write_package(r, h, package) ==
    IF r.skip THEN r
    ELSE IF ~isinstance_Package(h, package) THEN Fail(r.w, "AssertionError")
    ELSE LET elem == h[package]
         IN  do_leave_child(EndWhen(write_sub_packages(When(Len(elem.packages) > 0,
                 EndWhen(write_package_elements(When(Len(elem.elements) > 0,
                     write_identifiable(write_multilanguage_referrable(write_referrable(
                         do_add_child(r, "AR-PACKAGE", collect_identifiable_attributes(elem)),
                         elem), elem), elem)
                     ), h, package))
                 ), h, package)))

\* Writer._write_packages(packages)
write_packages(r, h, packages) ==
    do_leave_child(write_packages_loop(do_add_child(r, "AR-PACKAGES", <<>>), h, packages))

\* Writer._write_document(document, skip_root_attr)
write_document(w, h, document, skip_root_attr) ==
    LET attr == IF skip_root_attr THEN <<>>
                ELSE << <<"xsi:schemaLocation",
                          <<"http://autosar.org/schema/r4.0", getattr(h[document], "schema_file")>> >>,
                        <<"xmlns", "http://autosar.org/schema/r4.0">>,
                        <<"xmlns:xsi", "http://www.w3.org/2001/XMLSchema-instance">> >>
    IN  do_leave_child(EndWhen(write_packages(When(Len(h[document].packages) > 0,
            add_child(
                add_line(w, Text("<?xml version=\"1.0\" encoding=\"utf-8\"?>")),
                "AUTOSAR", attr)
            ), h, h[document].packages)))

\* Writer.write_str(document, skip_root_attr), up to the return statement
write_str(w, h, document, skip_root_attr) ==
    write_document(str_open(w), h, document, skip_root_attr)

\* write_file as it would be with the root attributes skipped, as they
\* are by default in write_str.
write_file_skipping_root_attr(w, h, document, file_path) ==
    do_close(write_document(open(w, file_path), h, document, TRUE))

\* Writer.write_file(document, file_path): _close is the last statement
write_file(w, h, document, file_path) ==
    do_close(write_document(open(w, file_path), h, document, FALSE))

\* Writer.write_file_elem(elem, file_path): _close is the last statement
write_file_elem(w, h, elem, file_path) ==
    LET w1 == open(w, file_path)
    IN  IF h[elem].cls \in switcher_collectable
        THEN do_close(write_collectable(Ok(w1), h, elem))
        ELSE Fail(w1, "NotImplementedError")

\* The names and the file of the document specification
Pkg == <<"P", "k", "g">>
CM == <<"C", "M">>
FilePath == "file.arxml"

\* A ValueSpecification of the base class, which no writer is registered for
BaseValueSpecification == Instance("ValueSpecification", [label |-> NoValue])

\* The value specifications application code hands to ConstantSpecification
ValueTrees ==
    {make_value(data).value :
        data \in {IntValue(5), FloatValue(1, 28),
                  ListValue(<<StrValue(<<"a">>), IntValue(0),
                              TupleValue(<<StrValue(<<"a">>), StrValue(<<"x">>)>>)>>),
                  ListValue(<<StrValue(<<"r">>), NoValue, FloatValue(25, 0 - 1)>>)}}
    \cup {BaseValueSpecification,
          ArrayValueSpecification_init(NoValue,
              ListValue(<<make_value(IntValue(5)).value, BaseValueSpecification>>)).value}

\* The elements application code constructs
DocElements ==
    {CompuMethod_init(CM, make_rational(IntValue(2), IntValue(0))),
     CompuMethod_init(CM, NoValue),
     NewElement("SenderReceiverInterface", <<"s">>,
                [is_service |-> NoValue, namespaces |-> NoValue, service_kind |-> NoValue])}
    \cup {ConstantSpecification_init(<<"c">>, value).value : value \in ValueTrees}

\* Two documents: document 1 holds package Pkg with one element, document
\* 4 holds package b, which holds package a with one element.
DocHeap(elemA, elemB) ==
    LET h0 == <<NewDocument, NewObject("Package", Pkg, <<>>), elemA,
                NewDocument, NewObject("Package", <<"b">>, <<>>),
                NewObject("Package", <<"a">>, <<>>), elemB>>
        h1 == append(h0, 2, 3).heap
        h2 == Document_append(h1, 1, 2).heap
        h3 == append(h2, 6, 7).heap
        h4 == append(h3, 5, 6).heap
    IN  Document_append(h4, 4, 5).heap

Documents == {id \in Objects : heap[id].cls = "Document"}

\* writer.write_str(document, skip_root_attr)
Writer_write_str(document, skip_root_attr) ==
    Writer_call("write_str", document,
                [skip_root_attr |-> skip_root_attr, before |-> writer.tag_stack], <<>>,
                write_str(writer, heap, document, skip_root_attr), TRUE)

\* writer.write_file(document, file_path)
Writer_write_file(document) ==
    Writer_call("write_file", document,
                [skip_root_attr |-> FALSE, before |-> writer.tag_stack], <<>>,
                write_file(writer, heap, document, FilePath), FALSE)

\* writer.write_file_elem(elem, file_path)
Writer_write_file_elem(self) ==
    Writer_call("write_file_elem", self,
                [skip_root_attr |-> FALSE, before |-> writer.tag_stack], <<>>,
                write_file_elem(writer, heap, self, FilePath), FALSE)

\* writer.write_str_elem(constant.value)
Writer_write_str_elem_value(self) ==
    /\ heap[self].cls = "ConstantSpecification"
    /\ Writer_call("write_str_elem", self,
                   [skip_root_attr |-> FALSE, before |-> writer.tag_stack], <<>>,
                   write_str_elem(writer, heap[self].attrs.value, NoTag), TRUE)

\* Two documents built by application code, and a new Writer.
DocInit ==
    /\ heap \in {DocHeap(elemA, elemB) : elemA \in DocElements, elemB \in DocElements}
    /\ last = Call("init", None, None, <<>>, "none", NoValue)
    /\ writer = NewWriter

DocNext ==
    \/ \E document \in Documents, skip_root_attr \in BOOLEAN :
          Writer_write_str(document, skip_root_attr)
    \/ \E document \in Documents : Writer_write_file(document)
    \/ \E self \in Objects \ Documents : Writer_write_file_elem(self)
    \/ \E self \in Objects : Writer_write_str_elem_value(self)

DocSpec == DocInit /\ [][DocNext]_vars

\* C12: write_str and write_file on a writer that has written before, also
\* one whose last write was aborted inside nested tags, give the text and
\* the outcome a new writer gives for the same document.
C12_ReusedWriterWritesTheSameText ==
    /\ last.op = "write_str" =>
          LET fresh == write_str(NewWriter, heap, last.self, last.item.skip_root_attr)
          IN  /\ last.raised = fresh.raised
              /\ fresh.raised = "none" => last.value = getvalue(fresh.w)
    /\ last.op = "write_file" =>
          LET fresh == write_file(NewWriter, heap, last.self, FilePath)
          IN  /\ last.raised = fresh.raised
              /\ writer.fh.lines = fresh.w.fh.lines

\* write_str has returned a text on a writer whose previous write was
\* aborted with tags still open.
C12_Witness ==
    /\ last.op = "write_str"
    /\ last.raised = "none"
    /\ Len(last.item.before) > 1
    /\ Len(last.value.lines) > 3

\* C13: when write_file or write_file_elem has ended, by returning or by
\* raising, the stream it opened is closed.
C13_StreamClosedOnEveryExit ==
    last.op \in {"write_file", "write_file_elem"} => writer.fh.closed

\* A node of a class without a writer in the value specification tree
RECURSIVE HoldsUnregisteredValue(_)
HoldsUnregisteredValue(value) ==
    \/ value.cls \notin switcher_value_specification
    \/ /\ value.cls = "ArrayValueSpecification"
       /\ \E i \in 1..Len(value.attrs.elements.items) :
             HoldsUnregisteredValue(value.attrs.elements.items[i])
    \/ /\ value.cls = "RecordValueSpecification"
       /\ \E i \in 1..Len(value.attrs.fields.items) :
             HoldsUnregisteredValue(value.attrs.fields.items[i])

\* The node is of a class without a writer, or holds such a node: in its
\* value specification, among its elements, or in a package below it
RECURSIVE HoldsUnregistered(_, _)
HoldsUnregistered(h, id) ==
    IF h[id].cls \in {"Document", "Package"}
    THEN \/ \E i \in 1..Len(h[id].elements) : HoldsUnregistered(h, h[id].elements[i])
         \/ \E i \in 1..Len(h[id].packages) : HoldsUnregistered(h, h[id].packages[i])
    ELSE \/ h[id].cls \notin switcher_collectable
         \/ /\ h[id].cls = "ConstantSpecification"
            /\ h[id].attrs.value # NoValue
            /\ HoldsUnregisteredValue(h[id].attrs.value)

\* C14: a write that comes upon an object of a class without a registered
\* writer (an element of a package, a node of a value specification tree,
\* the object given to write_str_elem or write_file_elem) raises
\* NotImplementedError.
C14_UnregisteredClassAborts ==
    /\ (last.op \in {"write_str", "write_file", "write_file_elem"}
        /\ HoldsUnregistered(heap, last.self)) => last.raised = "NotImplementedError"
    /\ (last.op = "write_str_elem" /\ HoldsUnregisteredValue(heap[last.self].attrs.value))
          => last.raised = "NotImplementedError"

\* write_str has come upon a SenderReceiverInterface in package Pkg of
\* document 1.
C14_Witness ==
    /\ last.op = "write_str"
    /\ last.self = 1
    /\ heap[3].cls = "SenderReceiverInterface"
    /\ last.raised = "NotImplementedError"
    /\ writer.tag_stack = <<"AUTOSAR", "AR-PACKAGES", "AR-PACKAGE", "ELEMENTS">>

\* The open tags around line i of the text: the numbers of their lines,
\* outermost first
RECURSIVE OpenAt(_, _)
OpenAt(lines, i) ==
    IF i <= 1 THEN <<>>
    ELSE LET before == OpenAt(lines, i - 1)
             piece == lines[i - 1][2]
         IN  IF piece.kind = "open" THEN Append(before, i - 1)
             ELSE IF piece.kind = "close" /\ Len(before) > 0
                  THEN SubSeq(before, 1, Len(before) - 1)
             ELSE before

\* Line i of the text is <tag>content</tag>
IsContent(lines, i, tag, content) ==
    /\ Len(lines[i]) = 2
    /\ lines[i][2].kind = "content"
    /\ lines[i][2].tag = tag
    /\ lines[i][2].content = StrValue(content)

\* Line i of the text is the opening tag
IsOpen(lines, i, tag) ==
    Len(lines[i]) = 2 /\ lines[i][2].kind = "open" /\ lines[i][2].tag = tag

\* The document of the round trip: package Pkg holding CompuMethod CM with
\* the rational computation of scaling factor 2 and offset 0
IsPkgCM(h) ==
    /\ h[2].name = Pkg
    /\ h[1].packages = <<2>>
    /\ h[2].elements = <<3>>
    /\ h[3] = [CompuMethod_init(CM, make_rational(IntValue(2), IntValue(0)))
                  EXCEPT !.parent = 2]

\* C15: the text of the document whose package Pkg holds CompuMethod CM
\* made with make_rational(scaling_factor=2, offset=0) has a COMPU-METHOD
\* with SHORT-NAME CM inside ELEMENTS inside the AR-PACKAGE with SHORT-NAME
\* Pkg, and inside it a COMPU-RATIONAL-COEFFS whose COMPU-NUMERATOR holds
\* the values 0 and 2, in that order and no other.
C15_PkgCMText ==
    (last.op = "write_str" /\ last.self = 1 /\ IsPkgCM(heap)) =>
        /\ last.raised = "none"
        /\ LET lines == last.value.lines
               n == Len(lines)
               Parent(i) == LET around == OpenAt(lines, i)
                            IN  IF Len(around) = 0 THEN 0 ELSE around[Len(around)]
               Inside(i, j) == \E k \in 1..Len(OpenAt(lines, i)) : OpenAt(lines, i)[k] = j
           IN  \E p \in 1..n :
                  /\ IsOpen(lines, p, "AR-PACKAGE")
                  /\ IsContent(lines, p + 1, "SHORT-NAME", Pkg)
                  /\ \E e \in p..n :
                        /\ IsOpen(lines, e, "ELEMENTS")
                        /\ Parent(e) = p
                        /\ \E c \in e..n :
                              /\ IsOpen(lines, c, "COMPU-METHOD")
                              /\ Parent(c) = e
                              /\ IsContent(lines, c + 1, "SHORT-NAME", CM)
                              /\ \E r \in c..n :
                                    /\ IsOpen(lines, r, "COMPU-RATIONAL-COEFFS")
                                    /\ Inside(r, c)
                                    /\ \E u \in r..n :
                                          /\ IsOpen(lines, u, "COMPU-NUMERATOR")
                                          /\ Parent(u) = r
                                          /\ IsContent(lines, u + 1, "V", <<"0">>)
                                          /\ IsContent(lines, u + 2, "V", <<"2">>)
                                          /\ lines[u + 3][2].kind = "close"

\* That document has been written.
C15_Witness ==
    /\ last.op = "write_str"
    /\ last.self = 1
    /\ IsPkgCM(heap)
    /\ last.raised = "none"
    /\ Len(last.value.lines) > 20

---------------------------------------------------------------------------
(* ApplicationRecordDataType.append / extend *)

\* The most elements a record data type is given
MaxRecordElements == 3

\* isinstance(element, ApplicationRecordElement)
isinstance_ApplicationRecordElement(h, id) == h[id].cls = "ApplicationRecordElement"

\* ApplicationRecordDataType.append(element)
ApplicationRecordDataType_append(h, self, element) ==
    IF isinstance_ApplicationRecordElement(h, element)
    THEN Return([h EXCEPT ![self].elements = Append(@, element)], NoValue)
    ELSE Raise(h, "TypeError")

\* ApplicationRecordDataType.extend(elements): append on each item in
\* turn, so that an exception leaves the items before it appended
RECURSIVE ApplicationRecordDataType_extend(_, _, _)
ApplicationRecordDataType_extend(h, self, elements) ==
    IF Len(elements) = 0 THEN Return(h, NoValue)
    ELSE LET r == ApplicationRecordDataType_append(h, self, Head(elements))
         IN  IF r.raised # "none" THEN r
             ELSE ApplicationRecordDataType_extend(r.heap, self, Tail(elements))

\* record.append(element)
Record_append(self, element) ==
    /\ heap[self].cls = "ApplicationRecordDataType"
    /\ Len(heap[self].elements) < MaxRecordElements
    /\ LET r == ApplicationRecordDataType_append(heap, self, element)
       IN  /\ heap' = r.heap
           /\ last' = Call("ApplicationRecordDataType.append", self, element, <<>>,
                           r.raised, r.value)
    /\ UNCHANGED writer

\* record.extend(elements)
Record_extend(self, elements) ==
    /\ heap[self].cls = "ApplicationRecordDataType"
    /\ Len(heap[self].elements) + Len(elements) <= MaxRecordElements
    /\ LET r == ApplicationRecordDataType_extend(heap, self, elements)
       IN  /\ heap' = r.heap
           /\ last' = Call("ApplicationRecordDataType.extend", self, elements, <<>>,
                           r.raised, r.value)
    /\ UNCHANGED writer

\* A record data type, two record elements, a CompuMethod and a package,
\* constructed and not yet put together.
ExtendInit ==
    /\ heap = <<NewObject("ApplicationRecordDataType", <<"a">>, <<>>),
                NewObject("ApplicationRecordElement", <<"a">>, <<>>),
                NewObject("ApplicationRecordElement", <<"b">>, <<>>),
                NewObject("CompuMethod", <<"b">>, <<>>),
                NewObject("Package", <<"a">>, <<>>)>>
    /\ last = Call("init", None, None, <<>>, "none", NoValue)
    /\ writer = NewWriter

ExtendNext ==
    \/ \E self \in Objects, element \in Objects : Record_append(self, element)
    \/ \E self \in Objects, n \in 0..2 : \E elements \in [1..n -> Objects] :
          Record_extend(self, elements)
    \/ \E self \in Packages, item \in Objects : Package_append(self, item)

ExtendSpec == ExtendInit /\ [][ExtendNext]_vars

\* C17: an append or extend that raises TypeError for an argument of the
\* wrong type leaves every list of every object as it was before the call.
C17_TypeErrorLeavesListsUnchanged ==
    [][last'.raised = "TypeError" => heap' = heap]_vars

---------------------------------------------------------------------------
(* LimitObject.check_value *)

\* value < limit and the like: a comparison of a number with None is a
\* TypeError
compare(value, op, limit) ==
    IF limit = NoValue THEN NewRaise("TypeError")
    ELSE New(BoolValue(CASE op = "<" -> value.n < limit.n
                         [] op = "<=" -> value.n <= limit.n
                         [] op = ">" -> value.n > limit.n
                         [] op = ">=" -> value.n >= limit.n))

\* LimitObject.check_value(value): the lower limit is tested first, and
\* the upper limit only when the lower one is kept
check_value(self, value) ==
    LET a == self.attrs
        below == IF a.lower_limit_type = EnumValue("CLOSED")
                 THEN compare(value, "<", a.lower_limit)
                 ELSE compare(value, "<=", a.lower_limit)
        above == IF a.upper_limit_type = EnumValue("CLOSED")
                 THEN compare(value, ">", a.upper_limit)
                 ELSE compare(value, ">=", a.upper_limit)
    IN  IF below.raised # "none" THEN below
        ELSE IF below.value.b THEN New(BoolValue(FALSE))
        ELSE IF above.raised # "none" THEN above
        ELSE IF above.value.b THEN New(BoolValue(FALSE))
        ELSE New(BoolValue(TRUE))

\* The limits and the numbers of the specification
MinNumber == 0 - 1
MaxNumber == 3
Limits == {NoValue, IntValue(0), IntValue(2)}
LimitTypes == {EnumValue("CLOSED"), EnumValue("OPEN")}

LimitObjects ==
    Built({ScaleConstraint_init(
               [lower_limit |-> l, upper_limit |-> u, lower_limit_type |-> lt,
                upper_limit_type |-> ut, label |-> NoValue, desc |-> NoValue,
                validity |-> NoValue]) :
           l \in Limits, u \in Limits, lt \in LimitTypes, ut \in LimitTypes})

\* constraint.check_value(value)
Call_check_value(self, value) ==
    /\ LET r == check_value(heap[self], IntValue(value))
       IN  last' = Call("check_value", self, value, <<>>, r.raised, r.value)
    /\ UNCHANGED <<heap, writer>>

\* One constraint object constructed by application code.
LimitInit ==
    /\ heap \in {<<c>> : c \in LimitObjects}
    /\ last = Call("init", None, None, <<>>, "none", NoValue)
    /\ writer = NewWriter

LimitNext == \E self \in 1..Len(heap), value \in MinNumber..MaxNumber : Call_check_value(self, value)

LimitSpec == LimitInit /\ [][LimitNext]_vars

\* x satisfies the bound: no bound when the limit is absent
SatisfiesLower(x, limit, type) ==
    limit = NoValue \/ IF type = EnumValue("CLOSED") THEN x >= limit.n ELSE x > limit.n
SatisfiesUpper(x, limit, type) ==
    limit = NoValue \/ IF type = EnumValue("CLOSED") THEN x <= limit.n ELSE x < limit.n

\* C18: check_value(x) returns a boolean for every constraint object, one
\* with absent limits included, and every number x: True exactly when x
\* satisfies the lower and the upper bound, each closed or open by its type.
C18_CheckValueRespectsIntervals ==
    last.op = "check_value" =>
        LET a == heap[last.self].attrs
        IN  /\ last.raised = "none"
            /\ last.value = BoolValue(SatisfiesLower(last.item, a.lower_limit, a.lower_limit_type)
                                      /\ SatisfiesUpper(last.item, a.upper_limit, a.upper_limit_type))

----------------------------------------------------------------------------
(* Ownership of packages and elements *)

\* The packages whose packages list or elements list holds `id`.
ListedIn(h, id) ==
    {p \in 1..Len(h) : /\ h[p].cls = "Package"
                       /\ (InList(h[p].packages, id) \/ InList(h[p].elements, id))}

\* C19: after any sequence of Package.append, create_package and
\* make_packages calls, every package and every element is in the packages
\* or elements list of at most one package, and its parent is that package;
\* an item one package lists is never left listed by a second one.
C19_ExclusiveOwnership ==
    \A id \in Packages \cup Elements :
        /\ Cardinality(ListedIn(heap, id)) <= 1
        /\ \A p \in ListedIn(heap, id) : heap[id].parent = p

\* C20: create_package(name) with a name the package's index holds raises
\* an error to the caller and creates nothing; with a new name it returns a
\* new Package that is last in packages, is indexed under the name and has
\* the creating package as its parent.
C20_CreatePackageRaisesOnExistingName ==
    [][last'.op = "create_package"
       => IF last'.ref \in DOMAIN heap[last'.self].collection_map
          THEN /\ last'.raised # "none"
               /\ heap' = heap
          ELSE /\ last'.raised = "none"
               /\ last'.value = ObjValue(Len(heap) + 1)
               /\ Len(heap') = Len(heap) + 1
               /\ isinstance_Package(heap', Len(heap'))
               /\ heap'[Len(heap')].name = last'.ref
               /\ heap'[last'.self].packages = Append(heap[last'.self].packages, Len(heap'))
               /\ heap'[last'.self].collection_map[last'.ref] = Len(heap')
               /\ heap'[Len(heap')].parent = last'.self]_vars

---------------------------------------------------------------------------
(* Ownership: the index and the parent links under append, create_package *)
(* and make_packages                                                      *)

\* A package and an element that application code constructed; nothing is
\* inserted yet.
OwnerInit ==
    /\ heap \in {<<NewObject("Package", <<"a">>, <<>>), NewObject("CompuMethod", name, <<>>)>> :
                   name \in Names}
    /\ last = Call("init", None, None, <<>>, "none", NoValue)
    /\ writer = NewWriter

\* The objects a heap of the ownership specification may hold
MaxOwnerHeap == 3

\* package.create_package(name), while the heap has room
Owner_create_package(self, name) ==
    /\ Len(create_package(heap, self, name).heap) <= MaxOwnerHeap
    /\ Package_create_package(self, name)

\* package.make_packages(path), while the heap has room
Owner_make_packages(self, path) ==
    /\ Len(make_packages(heap, self, path).heap) <= MaxOwnerHeap
    /\ Package_make_packages(self, path)

\* Any object is appended to any package, packages are created by name and
\* by path in any package, and the reference of an element is asked for.
OwnerNext ==
    \/ \E self \in Packages, item \in Objects : Package_append(self, item)
    \/ \E self \in Packages, name \in Names : Owner_create_package(self, name)
    \/ \E self \in Packages, path \in Paths : Owner_make_packages(self, path)
    \/ \E self \in Elements : Element_ref(self)

OwnerSpec == OwnerInit /\ [][OwnerNext]_vars

\* The items a package lists: its sub-packages, then its elements
Listed(h, p) == h[p].packages \o h[p].elements

\* C21: in every package the keys of the short-name index are the short
\* names of the listed items, each key maps to the listed item of that
\* name, and no two listed items share a short name; also after calls that
\* failed.
C21_IndexMatchesLists ==
    \A p \in Packages :
        LET items == Listed(heap, p)
            index == heap[p].collection_map
        IN  /\ DOMAIN index = {heap[items[i]].name : i \in 1..Len(items)}
            /\ \A name \in DOMAIN index :
                  /\ InList(items, index[name])
                  /\ heap[index[name]].name = name
            /\ \A i, j \in 1..Len(items) :
                  heap[items[i]].name = heap[items[j]].name => i = j

\* An append was refused on a package that lists a sub-package and an
\* element.
C21_Witness ==
    /\ last.op = "append"
    /\ last.raised = "ValueError"
    /\ Len(heap[last.self].packages) > 0
    /\ Len(heap[last.self].elements) > 0
    /\ Cardinality(DOMAIN heap[last.self].collection_map) = 2

\* The parent links of `id` lead back to `p` within `fuel` steps.
RECURSIVE HasAncestor(_, _, _, _)
HasAncestor(h, id, p, fuel) ==
    /\ fuel > 0
    /\ h[id].parent # None
    /\ \/ h[id].parent = p
       \/ HasAncestor(h, h[id].parent, p, fuel - 1)

\* C22: the parent links form a tree: no package is its own parent or
\* ancestor, and the parent-link walk of ref() ends for every element.
C22_ParentLinksFormATree ==
    /\ \A p \in Packages : ~HasAncestor(heap, p, p, Len(heap))
    /\ last.op = "ref" => last.raised # "RecursionError"

---------------------------------------------------------------------------
(* Claims about the nesting the writer keeps track of *)

\* The writer is as deep as it has tags open.
Balanced(w) == w.indentation_level = Len(w.tag_stack)

\* C23: between the steps of a write, also of one that is aborted,
\* indentation_level is the number of tags on tag_stack: _add_child and
\* _leave_child keep it so from the state any write has reached, and
\* _leave_child is never called with no tag open (which would be an
\* IndexError); an entry point that returns leaves no tag open and level 0.
C23_LevelIsStackDepth ==
    /\ Balanced(writer)
    /\ writer.fh # NoValue =>
          /\ Balanced(add_child(writer, "T", <<>>).w)
          /\ Len(writer.tag_stack) > 0 => Balanced(leave_child(writer).w)
    /\ last.raised # "IndexError"
    /\ (last.op \in {"write_str", "write_file", "write_file_elem", "write_str_elem"}
        /\ last.raised = "none")
          => writer.tag_stack = <<>> /\ writer.indentation_level = 0

\* A write was aborted four tags deep in a document.
C23_Witness ==
    /\ last.op = "write_file"
    /\ last.raised = "NotImplementedError"
    /\ Len(writer.tag_stack) = 4
    /\ writer.indentation_level = 4

---------------------------------------------------------------------------
(* The typed assignment helpers of ARObject *)

MaxPatternLen == 2  \* characters of a string given to a pattern-constrained field
MaxAssignHeap == 5  \* objects of a heap of the assignment specification

\* A member of an enumeration class
EnumMember(cls, name) == [tag |-> "enum", name |-> name, cls |-> cls]

\* The classes that are subclasses of Enum
EnumClasses == {"SwCalibrationAccess", "DisplayPresentation"}

\* isinstance(value, type_class)
isinstance_of(h, value, type_class) ==
    IF type_class = "str" THEN value.tag = "str"
    ELSE IF type_class = "int" THEN value.tag \in {"int", "bool"}
    ELSE IF type_class \in EnumClasses THEN value.tag = "enum" /\ value.cls = type_class
    ELSE value.tag = "obj" /\ h[value.id].cls = type_class

\* Character classes of the two patterns
DecDigits == {"0", "1", "2", "3", "4", "5", "6", "7", "8", "9"}
OctDigits == {"0", "1", "2", "3", "4", "5", "6", "7"}
HexDigits == DecDigits \cup {"a", "b", "c", "d", "e", "f", "A", "B", "C", "D", "E", "F"}
AllIn(text, chars) == \A k \in 1..Len(text) : text[k] \in chars

\* An optional sign and one digit or more
IsIntLiteral(text) ==
    LET digits == IF Len(text) > 0 /\ text[1] \in {"-", "+"} THEN Tail(text) ELSE text
    IN  Len(digits) > 0 /\ \A k \in 1..Len(digits) : \E d \in 0..9 : digits[k] = Digit(d)

\* int(text)
int_of_literal(text) ==
    IF text[1] = "-" THEN 0 - int_of_digits(Tail(text))
    ELSE IF text[1] = "+" THEN int_of_digits(Tail(text))
    ELSE int_of_digits(text)

\* 10^n
RECURSIVE pow10(_)
pow10(n) == IF n = 0 THEN 1 ELSE 10 * pow10(n - 1)

\* int(value) of a finite float: the fraction is cut off
int_of_float(f) ==
    IF f.exp >= 0 THEN f.coef * pow10(f.exp)
    ELSE IF f.coef < 0 THEN 0 - ((0 - f.coef) \div pow10(0 - f.exp))
    ELSE f.coef \div pow10(0 - f.exp)

\* An optional sign, digits and at most one point, one digit at the least
IsFloatLiteral(text) ==
    LET body == IF Len(text) > 0 /\ text[1] \in {"-", "+"} THEN Tail(text) ELSE text
    IN  /\ AllIn(body, DecDigits \cup {"."})
        /\ Cardinality({k \in 1..Len(body) : body[k] = "."}) <= 1
        /\ \E k \in 1..Len(body) : body[k] # "."

\* float(text)
float_of_literal(text) ==
    LET body == IF text[1] \in {"-", "+"} THEN Tail(text) ELSE text
        dot == index_of(body, {"."})
        digits == IF dot = 0 THEN body
                  ELSE SubSeq(body, 1, dot - 1) \o SubSeq(body, dot + 1, Len(body))
        n == int_of_digits(digits)
    IN  float_of_int(IF text[1] = "-" THEN 0 - n ELSE n,
                     IF dot = 0 THEN 0 ELSE 0 - (Len(body) - dot))

\* type_class(value) for bool, int, str and float.  str() of a reference
\* is its __str__, str() of an enumeration member is Class.MEMBER.
type_cast(h, type_class, value) ==
    IF type_class = "bool" THEN New(BoolValue(truthy(value)))
    ELSE IF type_class = "int" THEN
        IF value.tag = "int" THEN New(value)
        ELSE IF value.tag = "bool" THEN New(IntValue(IF value.b THEN 1 ELSE 0))
        ELSE IF value.tag = "float" THEN
            IF value.kind = "finite" THEN New(IntValue(int_of_float(value)))
            ELSE IF value.kind = "nan" THEN NewRaise("ValueError")
            ELSE NewRaise("OverflowError")
        ELSE IF value.tag = "str" THEN
            IF IsIntLiteral(value.str) THEN New(IntValue(int_of_literal(value.str)))
            ELSE NewRaise("ValueError")
        ELSE NewRaise("TypeError")
    ELSE IF type_class = "float" THEN
        IF value.tag = "float" THEN New(value)
        ELSE IF value.tag = "int" THEN New(float_of_int(value.n, 0))
        ELSE IF value.tag = "bool" THEN New(float_of_int(IF value.b THEN 1 ELSE 0, 0))
        ELSE IF value.tag = "str" THEN
            IF IsFloatLiteral(value.str) THEN New(float_of_literal(value.str))
            ELSE NewRaise("ValueError")
        ELSE NewRaise("TypeError")
    ELSE IF value.tag = "bool"
         THEN New(StrValue(IF value.b THEN <<"T", "r", "u", "e">>
                           ELSE <<"F", "a", "l", "s", "e">>))
    ELSE IF value.tag = "None" THEN New(StrValue(<<"N", "o", "n", "e">>))
    ELSE IF value.tag = "enum" THEN New(StrValue(<<value.cls, ".", value.name>>))
    ELSE IF value.tag = "obj" THEN
        LET text == BaseRef_str(h, value.id)
        IN  IF text.raised # "none" THEN NewRaise(text.raised) ELSE New(text.value)
    ELSE New(str(value))

\* ARObject._set_attr_with_strict_type(attr_name, value, type_class)
set_attr_with_strict_type(h, self, attr_name, value, type_class) ==
    IF isinstance_of(h, value, type_class)
    THEN Return([h EXCEPT ![self].attrs[attr_name] = value], NoValue)
    ELSE Raise(h, "TypeError")

\* _set_attr_with_type_cast as it would be if the attribute were cleared
\* before the conversion.
set_attr_cleared_first(h, self, attr_name, value, type_class) ==
    LET h0 == [h EXCEPT ![self].attrs[attr_name] = NoValue]
    IN  IF type_class \in {"bool", "int", "str", "float"} THEN
            LET new_value == type_cast(h, type_class, value)
            IN  IF new_value.raised # "none" THEN Raise(h0, new_value.raised)
                ELSE Return([h0 EXCEPT ![self].attrs[attr_name] = new_value.value], NoValue)
        ELSE Raise(h0, "NotImplementedError")

\* ARObject._set_attr_with_type_cast(attr_name, value, type_class)
set_attr_with_type_cast(h, self, attr_name, value, type_class) ==
    IF type_class \in {"bool", "int", "str", "float"} THEN
        LET new_value == type_cast(h, type_class, value)
        IN  IF new_value.raised # "none" THEN Raise(h, new_value.raised)
            ELSE Return([h EXCEPT ![self].attrs[attr_name] = new_value.value], NoValue)
    ELSE Raise(h, "NotImplementedError")

\* ARObject._assign(attr_name, value, type_name)
assign(h, self, attr_name, value, type_name) ==
    IF type_name \in EnumClasses
    THEN set_attr_with_strict_type(h, self, attr_name, value, type_name)
    ELSE IF type_name \in RefObjClasses
    THEN set_attr_from_str_or_direct(h, self, attr_name, value, type_name)
    ELSE set_attr_with_type_cast(h, self, attr_name, value, type_name)

\* ARObject._assign_optional(attr_name, value, type_name), for any type
assign_if_set(h, self, attr_name, value, type_name) ==
    IF value # NoValue THEN assign(h, self, attr_name, value, type_name)
    ELSE Return(h, NoValue)

\* ARObject._assign_optional_strict(attr_name, value, type_name)
assign_optional_strict(h, self, attr_name, value, type_name) ==
    IF value # NoValue THEN set_attr_with_strict_type(h, self, attr_name, value, type_name)
    ELSE Return(h, NoValue)

\* ARObject._set_attr_positive_int(attr_name, value)
set_attr_positive_int(h, self, attr_name, value) ==
    IF value.tag \notin {"int", "bool"} THEN Raise(h, "TypeError")
    ELSE IF value.tag = "int" /\ value.n < 0 THEN Raise(h, "ValueError")
    ELSE Return([h EXCEPT ![self].attrs[attr_name] = value], NoValue)

\* ARObject._assign_optional_positive_int(attr_name, value)
assign_optional_positive_int(h, self, attr_name, value) ==
    IF value # NoValue THEN set_attr_positive_int(h, self, attr_name, value)
    ELSE Return(h, NoValue)

\* The whole text is one of the forms of alignment_type_re:
\* [1-9][0-9]*|0[xX][0-9a-fA-F]*|0[bB][0-1]+|0[0-7]*|UNSPECIFIED|UNKNOWN|BOOLEAN|PTR
IsAlignment(text) ==
    \/ Len(text) >= 1 /\ text[1] \in DecDigits \ {"0"} /\ AllIn(Tail(text), DecDigits)
    \/ /\ Len(text) >= 2 /\ text[1] = "0" /\ text[2] \in {"x", "X"}
       /\ AllIn(SubSeq(text, 3, Len(text)), HexDigits)
    \/ /\ Len(text) >= 3 /\ text[1] = "0" /\ text[2] \in {"b", "B"}
       /\ AllIn(SubSeq(text, 3, Len(text)), {"0", "1"})
    \/ Len(text) >= 1 /\ text[1] = "0" /\ AllIn(Tail(text), OctDigits)
    \/ text \in {<<"U", "N", "S", "P", "E", "C", "I", "F", "I", "E", "D">>,
                 <<"U", "N", "K", "N", "O", "W", "N">>,
                 <<"B", "O", "O", "L", "E", "A", "N">>, <<"P", "T", "R">>}

\* [0-9]*(\.[0-9]+)?
IsWidthAndPrecision(text) ==
    LET dot == index_of(text, {"."})
    IN  IF dot = 0 THEN AllIn(text, DecDigits)
        ELSE /\ AllIn(SubSeq(text, 1, dot - 1), DecDigits)
             /\ dot < Len(text)
             /\ AllIn(SubSeq(text, dot + 1, Len(text)), DecDigits)

\* The whole text is one of the forms of display_format_str_re:
\* %[ \-+#]?[0-9]*(\.[0-9]+)?[diouxXfeEgGcs]
IsDisplayFormat(text) ==
    /\ Len(text) >= 2
    /\ text[1] = "%"
    /\ text[Len(text)] \in {"d", "i", "o", "u", "x", "X", "f", "e", "E", "g", "G", "c", "s"}
    /\ LET middle == SubSeq(text, 2, Len(text) - 1)
       IN  \/ IsWidthAndPrecision(middle)
           \/ /\ Len(middle) > 0
              /\ middle[1] \in {" ", "-", "+", "#"}
              /\ IsWidthAndPrecision(Tail(middle))

\* The whole text is one of the forms of the pattern
fullmatch(pattern, text) ==
    IF pattern = "alignment_type_re" THEN IsAlignment(text) ELSE IsDisplayFormat(text)

\* pattern.match(text) is not None: the pattern matches at the start of
\* the text, whatever follows the match
match(pattern, text) == \E k \in 0..Len(text) : fullmatch(pattern, SubSeq(text, 1, k))

\* _assign_int_or_str_pattern as it would be with pattern.fullmatch.
assign_int_or_str_fullmatch(h, self, attr_name, value, pattern) ==
    IF value.tag \in {"int", "bool"} THEN Return([h EXCEPT ![self].attrs[attr_name] = value], NoValue)
    ELSE IF value.tag = "str" THEN
        IF ~fullmatch(pattern, value.str) THEN Raise(h, "ValueError")
        ELSE Return([h EXCEPT ![self].attrs[attr_name] = value], NoValue)
    ELSE Raise(h, "TypeError")

\* ARObject._assign_int_or_str_pattern(attr_name, value, pattern)
assign_int_or_str_pattern(h, self, attr_name, value, pattern) ==
    IF value.tag \in {"int", "bool"} THEN Return([h EXCEPT ![self].attrs[attr_name] = value], NoValue)
    ELSE IF value.tag = "str" THEN
        IF ~match(pattern, value.str) THEN Raise(h, "ValueError")
        ELSE Return([h EXCEPT ![self].attrs[attr_name] = value], NoValue)
    ELSE Raise(h, "TypeError")

\* ARObject._assign_int_or_str_pattern_optional(attr_name, value, pattern)
assign_int_or_str_pattern_optional(h, self, attr_name, value, pattern) ==
    IF value # NoValue THEN assign_int_or_str_pattern(h, self, attr_name, value, pattern)
    ELSE Return(h, NoValue)

\* The attributes the helpers are called on, each with the helper its
\* class uses for it and the type or pattern it names
AssignFields ==
    [calibration_access |-> <<"assign", "SwCalibrationAccess">>,
     base_type_ref |-> <<"assign", "SwBaseTypeRef">>,
     position |-> <<"assign", "int">>,
     symbol |-> <<"assign", "str">>,
     is_virtual |-> <<"assign", "bool">>,
     step_size |-> <<"assign", "float">>,
     category |-> <<"strict", "str">>,
     type_ref |-> <<"strict", "ApplicationDataTypeRef">>,
     array_size |-> <<"positive_int", "int">>,
     alignment |-> <<"pattern", "alignment_type_re">>,
     display_format |-> <<"pattern", "display_format_str_re">>]

\* The texts given to a pattern-constrained field: every text of up to
\* MaxPatternLen of these characters, and the symbolic tokens with and
\* without a character after them
PatternChars == {"0", "1", "8", "x", "%", "d"}
RECURSIVE TextsUpTo(_)
TextsUpTo(n) ==
    IF n = 0 THEN {<<>>}
    ELSE LET S == TextsUpTo(n - 1)
         IN  S \cup {Append(t, c) : t \in {u \in S : Len(u) = n - 1}, c \in PatternChars}
PatternTexts ==
    TextsUpTo(MaxPatternLen)
        \cup {<<"P", "T", "R">>, <<"P", "T", "R", "x">>, <<"P", "T">>,
              <<"B", "O", "O", "L", "E", "A", "N">>, <<"0", "b">>, <<"0", "b", "1">>,
              <<"%", "-", "8", ".", "1", "d">>, <<"%", "8", ".", "d">>, <<"%", "d", "d">>}

\* The values application code hands to the helpers
AssignValues ==
    {NoValue, IntValue(0 - 1), IntValue(0), IntValue(7), BoolValue(TRUE), FloatValue(25, 0 - 1),
     EnumMember("SwCalibrationAccess", "READ_ONLY"),
     EnumMember("DisplayPresentation", "PRESENTATION_DISCRETE"),
     ObjValue(2), ObjValue(3)}
        \cup {StrValue(t) : t \in {<<>>, <<"a">>, <<"7">>, <<"0", "8">>, <<"-", "7">>,
                                   <<"7", ".", "5">>, <<Slash, "a">>}}

\* An object with one attribute, not yet set, and two references that
\* application code constructed.
AssignInit ==
    /\ heap \in {<<[cls |-> "ARObject", attrs |-> [a \in {attr} |-> NoValue]],
                   NewRefObject("SwBaseTypeRef", StrValue(<<Slash, "a">>), "SW_BASE_TYPE"),
                   NewRefObject("ApplicationDataTypeRef", StrValue(<<Slash, "b">>),
                                "APPLICATION_PRIMITIVE_DATA_TYPE")>> :
                    attr \in DOMAIN AssignFields}
    /\ last = Call("init", None, None, <<>>, "none", NoValue)
    /\ writer = NewWriter

\* A call of a helper on the object: what it leaves and what it raised
Helper_call(op, attr, value, r) ==
    /\ Len(r.heap) <= MaxAssignHeap
    /\ heap' = r.heap
    /\ last' = Call(op, 1, [attr |-> attr, type |-> AssignFields[attr][2]], value,
                    r.raised, r.value)
    /\ UNCHANGED writer

\* self._assign(attr, value, type_name)
ARObject_assign(attr, value) ==
    /\ AssignFields[attr][1] = "assign"
    /\ Helper_call("_assign", attr, value, assign(heap, 1, attr, value, AssignFields[attr][2]))

\* self._assign_optional(attr, value, type_name)
ARObject_assign_optional(attr, value) ==
    /\ AssignFields[attr][1] = "assign"
    /\ Helper_call("_assign_optional", attr, value,
                   assign_if_set(heap, 1, attr, value, AssignFields[attr][2]))

\* self._assign_optional_strict(attr, value, type_name)
ARObject_assign_optional_strict(attr, value) ==
    /\ AssignFields[attr][1] = "strict"
    /\ Helper_call("_assign_optional_strict", attr, value,
                   assign_optional_strict(heap, 1, attr, value, AssignFields[attr][2]))

\* self._set_attr_from_str_or_direct(attr, value, type_name)
ARObject_set_attr_from_str_or_direct(attr, value) ==
    /\ AssignFields[attr][2] \in RefObjClasses
    /\ Helper_call("_set_attr_from_str_or_direct", attr, value,
                   set_attr_from_str_or_direct(heap, 1, attr, value, AssignFields[attr][2]))

\* self._set_attr_positive_int(attr, value)
ARObject_set_attr_positive_int(attr, value) ==
    /\ AssignFields[attr][1] = "positive_int"
    /\ Helper_call("_set_attr_positive_int", attr, value,
                   set_attr_positive_int(heap, 1, attr, value))

\* self._assign_optional_positive_int(attr, value)
ARObject_assign_optional_positive_int(attr, value) ==
    /\ AssignFields[attr][1] = "positive_int"
    /\ Helper_call("_assign_optional_positive_int", attr, value,
                   assign_optional_positive_int(heap, 1, attr, value))

\* self._assign_int_or_str_pattern(attr, value, pattern)
ARObject_assign_int_or_str_pattern(attr, value) ==
    /\ AssignFields[attr][1] = "pattern"
    /\ Helper_call("_assign_int_or_str_pattern", attr, value,
                   assign_int_or_str_pattern(heap, 1, attr, value, AssignFields[attr][2]))

\* self._assign_int_or_str_pattern_optional(attr, value, pattern)
ARObject_assign_int_or_str_pattern_optional(attr, value) ==
    /\ AssignFields[attr][1] = "pattern"
    /\ Helper_call("_assign_int_or_str_pattern_optional", attr, value,
                   assign_int_or_str_pattern_optional(heap, 1, attr, value,
                                                      AssignFields[attr][2]))

AssignNext ==
    \E attr \in DOMAIN heap[1].attrs :
        \/ \E value \in AssignValues : ARObject_assign(attr, value)
        \/ \E value \in AssignValues : ARObject_assign_optional(attr, value)
        \/ \E value \in AssignValues : ARObject_assign_optional_strict(attr, value)
        \/ \E value \in AssignValues : ARObject_set_attr_from_str_or_direct(attr, value)
        \/ \E value \in AssignValues : ARObject_set_attr_positive_int(attr, value)
        \/ \E value \in AssignValues : ARObject_assign_optional_positive_int(attr, value)
        \/ \E value \in AssignValues \cup {StrValue(t) : t \in PatternTexts} :
              ARObject_assign_int_or_str_pattern(attr, value)
        \/ \E value \in AssignValues \cup {StrValue(t) : t \in PatternTexts} :
              ARObject_assign_int_or_str_pattern_optional(attr, value)

AssignSpec == AssignInit /\ [][AssignNext]_vars

\* The value fails the test the helper makes of it: the type test of the
\* strict helpers, the str-or-instance test of the reference helper, the
\* conversion of the casting helper, the int and sign tests, the int or
\* matching-str test.
FailsValidation(h, op, type, value) ==
    IF op \in {"_assign", "_assign_optional"} THEN
        IF type \in EnumClasses THEN ~isinstance_of(h, value, type)
        ELSE IF type \in RefObjClasses
        THEN value.tag # "str" /\ ~isinstance_of(h, value, type)
        ELSE type_cast(h, type, value).raised # "none"
    ELSE IF op = "_assign_optional_strict" THEN ~isinstance_of(h, value, type)
    ELSE IF op = "_set_attr_from_str_or_direct"
    THEN value.tag # "str" /\ ~isinstance_of(h, value, type)
    ELSE IF op \in {"_set_attr_positive_int", "_assign_optional_positive_int"}
    THEN value.tag \notin {"int", "bool"} \/ (value.tag = "int" /\ value.n < 0)
    ELSE \/ value.tag \notin {"int", "bool", "str"}
         \/ value.tag = "str" /\ ~match(type, value.str)

\* The helpers that do nothing when the value is None
OptionalHelpers ==
    {"_assign_optional", "_assign_optional_strict", "_assign_optional_positive_int",
     "_assign_int_or_str_pattern_optional"}
\* All the helpers
Helpers ==
    OptionalHelpers \cup {"_assign", "_set_attr_from_str_or_direct", "_set_attr_positive_int",
                          "_assign_int_or_str_pattern"}

C25_WholeStringMatchesPattern ==
    [][last'.op = "_assign_int_or_str_pattern" =>
          LET value == last'.ref
              attr == last'.item.attr
          IN  IF value.tag = "str" THEN
                  IF fullmatch(last'.item.type, value.str)
                  THEN last'.raised = "none" /\ heap'[1].attrs[attr] = value
                  ELSE last'.raised = "ValueError" /\ heap' = heap
              ELSE value.tag = "int" => last'.raised = "none" /\ heap'[1].attrs[attr] = value]_vars

---------------------------------------------------------------------------
(* Mixed content: the parts of long names and paragraphs *)

\* The most parts given to one container, and the most containers built
MaxParts == 2
MaxMixedHeap == 1

\* Break()
Break_init == New(Instance("Break", [x \in {} |-> NoValue]))

\* EmphasisText.__init__(elements, color, font, type)
EmphasisText_init(elements, color, font, type) ==
    IF elements = NoValue \/ elements.tag = "str"
    THEN New(Instance("EmphasisText",
                      [elements |-> ListValue(IF elements = NoValue THEN <<>>
                                              ELSE <<elements>>),
                       color |-> color, font |-> font, type |-> type]))
    ELSE NewRaise("NotImplementedError")

\* IndexEntry.__init__(text)
IndexEntry_init(text) == New(Instance("IndexEntry", [text |-> text]))

\* TechnicalTerm.__init__(text, tex_render, type)
TechnicalTerm_init(text, tex_render, type) ==
    New(Instance("TechnicalTerm", [tex_render |-> tex_render, type |-> type, text |-> text]))

\* Subscript.__init__(text)
Subscript_init(text) == New(Instance("Subscript", [text |-> text]))

\* Superscript.__init__(text)
Superscript_init(text) == New(Instance("Superscript", [text |-> text]))

\* The values handed over as parts: one of each kind the containers are
\* documented to take, and an int, which none of them takes.
PartValues ==
    {StrValue(<<"a">>), IntValue(1)}
        \cup Built({Break_init,
                    EmphasisText_init(StrValue(<<"a">>), NoValue, NoValue, NoValue),
                    IndexEntry_init(StrValue(<<"a">>)),
                    TechnicalTerm_init(StrValue(<<"a">>), NoValue, NoValue),
                    Subscript_init(StrValue(<<"a">>)),
                    Superscript_init(StrValue(<<"a">>))})

\* The tuple of classes in the isinstance test of append, for the group
\* each container class inherits append from: MixedContentForLongName,
\* MixedContentForOverviewParagraph, MixedContentForParagraph.
append_isinstance ==
    [LanguageLongName |->
         <<"str", "TechnicalTerm", "EmphasisText", "Subscript", "Subscript", "IndexEntry">>,
     LanguageOverviewParagraph |->
         <<"str", "TechnicalTerm", "EmphasisText", "Subscript", "Subscript", "IndexEntry">>,
     LanguageParagraph |->
         <<"str", "Break", "EmphasisText", "IndexEntry", "Subscript", "Subscript",
           "TechnicalTerm">>]

\* isinstance(value, (cls, ...))
isinstance_any(value, classes) ==
    \E i \in 1..Len(classes) :
        IF classes[i] = "str" THEN value.tag = "str" ELSE isinstance(value, classes[i])

\* MixedContentFor*.append(part) on the container `self`
MixedContent_append(self, part) ==
    IF isinstance_any(part, append_isinstance[self.cls])
    THEN New([self EXCEPT !.attrs.parts.items = Append(@, part)])
    ELSE NewRaise("TypeError")

\* for part in parts: self.append(part)
RECURSIVE append_each(_, _)
append_each(res, parts) ==
    IF res.raised # "none" \/ Len(parts) = 0 THEN res
    ELSE append_each(MixedContent_append(res.value, Head(parts)), Tail(parts))

\* LanguageLongName / LanguageOverviewParagraph / LanguageParagraph
\* .__init__(language, parts)
Language_init(cls, language, parts) ==
    IF language.tag # "enum" THEN NewRaise("AssertionError")
    ELSE LET self == Instance(cls, [language |-> language, parts |-> ListValue(<<>>)])
         IN  IF parts = NoValue THEN New(self)
             ELSE IF parts.tag = "str" THEN MixedContent_append(self, parts)
             ELSE append_each(New(self), parts.items)

LanguageClasses == {"LanguageLongName", "LanguageOverviewParagraph", "LanguageParagraph"}

\* The lists of at most n parts
PartLists(n) == UNION {[1..k -> PartValues] : k \in 0..n}

\* The parts arguments of the constructors: None, a str, a list
PartsArgs == {NoValue, StrValue(<<"a">>)} \cup {ListValue(l) : l \in PartLists(MaxParts)}

\* elem = cls(Language.EN, parts)
Call_Language_init(cls, parts) ==
    LET res == Language_init(cls, EnumValue("EN"), parts)
    IN  /\ Len(heap) < MaxMixedHeap
        /\ heap' = IF res.raised = "none" THEN Append(heap, res.value) ELSE heap
        /\ last' = Call("__init__", None, cls, parts, res.raised, NoValue)
        /\ UNCHANGED writer

\* elem.append(part)
Call_MixedContent_append(self, part) ==
    LET res == MixedContent_append(heap[self], part)
    IN  /\ Len(heap[self].attrs.parts.items) < MaxParts
        /\ heap' = IF res.raised = "none" THEN [heap EXCEPT ![self] = res.value] ELSE heap
        /\ last' = Call("append", self, None, part, res.raised, NoValue)
        /\ UNCHANGED writer

\* writer.write_str_elem(elem) for a long name or a paragraph; an overview
\* paragraph has no entry in the switcher and is written inside its
\* multi-language element: writer.write_str_elem(
\* MultiLanguageOverviewParagraph(elem), 'DESC').
Writer_write_language(self) ==
    IF heap[self].cls = "LanguageOverviewParagraph"
    THEN Writer_call("write_str_elem", self, None, "DESC",
                     write_str_elem(writer,
                                    Instance("MultiLanguageOverviewParagraph",
                                             [elements |-> ListValue(<<heap[self]>>)]),
                                    "DESC"),
                     TRUE)
    ELSE Writer_call("write_str_elem", self, None, NoTag,
                     write_str_elem(writer, heap[self], NoTag), TRUE)

\* A new Writer, and no container yet.
MixedInit ==
    /\ heap = <<>>
    /\ last = Call("init", None, None, <<>>, "none", NoValue)
    /\ writer = NewWriter

MixedNext ==
    \/ \E cls \in LanguageClasses, parts \in PartsArgs : Call_Language_init(cls, parts)
    \/ \E self \in 1..Len(heap), part \in PartValues : Call_MixedContent_append(self, part)
    \/ \E self \in 1..Len(heap) : Writer_write_language(self)

MixedSpec == MixedInit /\ [][MixedNext]_vars

\* The kinds of parts the comment of each container class lists:
\* str | TT | E | SUP | SUB | IE, and for paragraphs also BR
ListedParts ==
    [LanguageLongName |->
         {"str", "TechnicalTerm", "EmphasisText", "Superscript", "Subscript", "IndexEntry"},
     LanguageOverviewParagraph |->
         {"str", "TechnicalTerm", "EmphasisText", "Superscript", "Subscript", "IndexEntry"},
     LanguageParagraph |->
         {"str", "Break", "EmphasisText", "IndexEntry", "Subscript", "Superscript",
          "TechnicalTerm"}]

\* The kind of a part: str, or the class of the object
KindOf(part) == IF part.tag = "instance" THEN part.cls ELSE part.tag

\* The parts arguments as the list of parts they stand for
PartsOf(parts) ==
    IF parts = NoValue THEN <<>> ELSE IF parts.tag = "str" THEN <<parts>> ELSE parts.items

\* C26: append takes every part of a kind the container's class comment
\* lists and puts it at the end of parts; the constructor takes every
\* parts argument made of such kinds and keeps the parts in their order;
\* and the writer of the container renders every container so built.
C26_ListedPartsAreAccepted ==
    /\ (last.op = "append" /\ KindOf(last.ref) \in ListedParts[heap[last.self].cls])
          => /\ last.raised = "none"
             /\ LET parts == heap[last.self].attrs.parts.items
                IN  Len(parts) > 0 /\ parts[Len(parts)] = last.ref
    /\ (last.op = "__init__"
           /\ \A i \in 1..Len(PartsOf(last.ref)) :
                 KindOf(PartsOf(last.ref)[i]) \in ListedParts[last.item])
          => /\ last.raised = "none"
             /\ heap[Len(heap)].cls = last.item
             /\ heap[Len(heap)].attrs.parts.items = PartsOf(last.ref)
    /\ last.op = "write_str_elem" => last.raised = "none"

\* The part of C26 about the writers alone: every kind listed for a
\* container is rendered in a line of that container's tag.
C26_ListedPartsAreRendered ==
    \A cls \in LanguageClasses, part \in PartValues :
        KindOf(part) \in ListedParts[cls]
            => write_part(Ok(str_open(NewWriter)), part, cls # "LanguageLongName").raised
                  = "none"

---------------------------------------------------------------------------
(* Tag pairs: the opening and closing lines of a written text *)

\* A line written by _add_child: the indentation and one opening tag
IsChildOpen(line) == Len(line) = 2 /\ line[2].kind = "open"
\* A line written by _leave_child: the indentation and one closing tag
IsChildClose(line) == Len(line) = 2 /\ line[2].kind = "close"

\* The lines from line i on close the opening lines of `stack`, innermost
\* first, each with a closing tag of its name at its indentation, they
\* close every opening line among them in the same way, and they close
\* nothing else.
RECURSIVE WellNested(_, _, _)
WellNested(lines, i, stack) ==
    IF i > Len(lines) THEN stack = <<>>
    ELSE IF IsChildOpen(lines[i]) THEN WellNested(lines, i + 1, Append(stack, lines[i]))
    ELSE IF IsChildClose(lines[i])
         THEN /\ Len(stack) > 0
              /\ stack[Len(stack)][2].tag = lines[i][2].tag
              /\ stack[Len(stack)][1] = lines[i][1]
              /\ WellNested(lines, i + 1, SubSeq(stack, 1, Len(stack) - 1))
    ELSE WellNested(lines, i + 1, stack)

\* The four write operations
WriteOps == {"write_str", "write_file", "write_file_elem", "write_str_elem"}

\* C27: in the text of a write that returned, every opening tag of
\* _add_child is closed later by a closing tag of the same name at the
\* same indentation, the pairs are nested (last opened, first closed),
\* and no closing tag stands without its opening tag.
C27_TagsArePairedAndNested ==
    (last.op \in WriteOps /\ last.raised = "none")
        => /\ WellNested(writer.fh.lines, 1, <<>>)
           /\ last.op \in {"write_str", "write_str_elem"}
                 => last.value.lines = writer.fh.lines

\* write_str has returned a text in which an opening tag stands inside
\* four others and a tag name is opened twice.
C27_Witness ==
    /\ last.op = "write_str"
    /\ last.raised = "none"
    /\ LET lines == last.value.lines
       IN  /\ \E i \in 1..Len(lines) : IsChildOpen(lines[i]) /\ Len(OpenAt(lines, i)) >= 4
           /\ \E i, j \in 1..Len(lines) :
                 /\ i < j
                 /\ IsChildOpen(lines[i])
                 /\ IsChildOpen(lines[j])
                 /\ lines[i][2].tag = lines[j][2].tag

---------------------------------------------------------------------------
(* Numeric fields in the written text *)

\* C28: a numeric field that is not None is written as its element with
\* the decimal text of the value, 0 included: the text of a CompuScale
\* with an int mask has a MASK line with the digits of the mask, and with
\* a CompuConst content of an int value a V line with the digits of the
\* value.
C28_NumericFieldsAreWritten ==
    (last.op = "write_str_elem" /\ last.raised = "none" /\ heap[last.self].cls = "CompuScale")
        => LET a == heap[last.self].attrs
               lines == last.value.lines
           IN  /\ (a.mask # NoValue /\ a.mask.tag = "int")
                     => \E i \in 1..Len(lines) : IsContent(lines, i, "MASK", str_int(a.mask.n))
               /\ (isinstance(a.content, "CompuConst") /\ a.content.attrs.value.tag = "int")
                     => \E i \in 1..Len(lines) :
                           IsContent(lines, i, "V", str_int(a.content.attrs.value.n))

---------------------------------------------------------------------------
(* Annotations of an identifiable element *)

\* The most annotations given to one element
MaxAnnotations == 3

\* Annotation.__init__(label, origin, text)
Annotation_init(label, origin, text) ==
    New(Instance("Annotation", [label |-> label, origin |-> origin, text |-> text]))

\* The annotations application code constructs: with an origin or empty
Annotations ==
    Built({Annotation_init(NoValue, origin, NoValue) :
           origin \in {NoValue, StrValue(<<"a">>), StrValue(<<"b">>)}})

\* The lists given to elem.annotations
AnnotationLists ==
    {ListValue(l) : l \in UNION {[1..n -> Annotations] : n \in 0..MaxAnnotations}}

\* elem.annotations = annotations
Set_annotations(self, annotations) ==
    /\ heap' = [heap EXCEPT ![self].attrs.annotations = annotations]
    /\ last' = Call("annotations", self, None, annotations, "none", NoValue)
    /\ UNCHANGED writer

\* One CompuMethod constructed by application code, and a new Writer.
AnnotationInit ==
    /\ heap = <<CompuMethod_init(CM, NoValue)>>
    /\ last = Call("init", None, None, <<>>, "none", NoValue)
    /\ writer = NewWriter

AnnotationNext ==
    \/ \E self \in Objects, annotations \in AnnotationLists : Set_annotations(self, annotations)
    \/ \E self \in Objects : Writer_write_file_elem(self)

AnnotationSpec == AnnotationInit /\ [][AnnotationNext]_vars

\* The lines of a text that open an element `tag` or hold it empty
ElementLines(lines, tag) ==
    {i \in 1..Len(lines) :
        Len(lines[i]) = 2 /\ lines[i][2].tag = tag /\ lines[i][2].kind \in {"open", "empty"}}

\* C29: the text of an element with a list of n > 0 annotations has one
\* ANNOTATIONS element, and this element holds n ANNOTATION children, the
\* k-th of them written from the k-th annotation of the list.
C29_OneAnnotationsElement ==
    (last.op = "write_file_elem" /\ last.raised = "none"
        /\ truthy(heap[last.self].attrs.annotations))
        => LET lines == writer.fh.lines
               annotations == heap[last.self].attrs.annotations.items
               groups == ElementLines(lines, "ANNOTATIONS")
               children == ElementLines(lines, "ANNOTATION")
           IN  /\ Cardinality(groups) = 1
               /\ Cardinality(children) = Len(annotations)
               /\ \A i \in children :
                     LET around == OpenAt(lines, i)
                         k == Cardinality({j \in children : j <= i})
                     IN  /\ Len(around) > 0
                         /\ around[Len(around)] \in groups
                         /\ IF annotations[k].attrs.origin = NoValue
                            THEN lines[i][2].kind = "empty"
                            ELSE /\ lines[i][2].kind = "open"
                                 /\ lines[i + 1][2]
                                       = ContentTag("ANNOTATION-ORIGIN", <<>>,
                                                    annotations[k].attrs.origin)

---------------------------------------------------------------------------
(* The two entry points that write a whole document *)

\* The default of the parameter skip_root_attr of write_str
write_str_skip_root_attr == TRUE

\* C30: the text write_file writes for a document is the text write_str
\* returns for it when called with its default arguments, the attributes
\* of the root element included.
C30_FileTextIsStrText ==
    /\ (last.op = "write_file" /\ last.raised = "none")
          => LET text == write_str(writer, heap, last.self, write_str_skip_root_attr)
             IN  text.raised = "none" /\ getvalue(text.w).lines = writer.fh.lines
    /\ (last.op = "write_str" /\ last.raised = "none"
           /\ last.item.skip_root_attr = write_str_skip_root_attr)
          => LET file == write_file(writer, heap, last.self, FilePath)
             IN  file.raised = "none" /\ file.w.fh.lines = last.value.lines

\* C30 as amended: the text write_file writes for a document is the text
\* write_str returns for it when called with skip_root_attr=False; the
\* text of write_str called with its default arguments has the same lines
\* but for the line of the root element, which has no attributes there and
\* three in the file.
C30_FileTextIsStrTextWithRootAttr ==
    /\ (last.op = "write_file" /\ last.raised = "none")
          => LET text == write_str(writer, heap, last.self, FALSE)
                 bare == write_str(writer, heap, last.self, write_str_skip_root_attr)
                 lines == writer.fh.lines
             IN  /\ text.raised = "none"
                 /\ getvalue(text.w).lines = lines
                 /\ bare.raised = "none"
                 /\ Len(bare.w.fh.lines) = Len(lines)
                 /\ \A i \in 1..Len(lines) : i # 2 => bare.w.fh.lines[i] = lines[i]
                 /\ lines[2][2].kind = "open"
                 /\ lines[2][2].tag = "AUTOSAR"
                 /\ Len(lines[2][2].attr) = 3
                 /\ bare.w.fh.lines[2] = [lines[2] EXCEPT ![2].attr = <<>>]
    /\ (last.op = "write_str" /\ last.raised = "none" /\ ~last.item.skip_root_attr)
          => LET file == write_file(writer, heap, last.self, FilePath)
             IN  file.raised = "none" /\ file.w.fh.lines = last.value.lines

\* write_file has written a document that holds a package with a
\* CompuMethod, and has closed the file.
C30_Witness ==
    /\ last.op = "write_file"
    /\ last.raised = "none"
    /\ writer.fh.closed
    /\ Len(writer.fh.lines) > 6
    /\ \E i \in 1..Len(writer.fh.lines) : IsOpen(writer.fh.lines, i, "COMPU-METHOD")

============================================================================
